---------------------------- MODULE Spec2Model ----------------------------
(***************************************************************************)
(* A model of the cabrillo-log workspace: the Cabrillo parser, validator   *)
(* and serializer (src/cabrillo-log/src/lib.rs), the callsign-to-entity    *)
(* resolver (src/enricher/src/lib.rs) and the build of its prefix index    *)
(* (src/enricher/build.rs).                                                *)
(*                                                                         *)
(* Text is modelled as Rust models it: a string is a sequence of UTF-8     *)
(* bytes.  An ASCII byte is written as the one-character string of its     *)
(* character; a byte >= 0x80 is written as its two hex digits ("C3").      *)
(***************************************************************************)
EXTENDS Naturals, Sequences, FiniteSets, TLC

VARIABLES
    content,      \* parse: the text handed to CabrilloLog::parse
    lines,        \* parse: the lines the iterator content.lines() yields
    pos,          \* parse: how many of them the loop has taken so far
    headers,      \* parse: local `headers` (HashMap<String, String>)
    qsos,         \* parse: local `qsos` (Vec<QSO>)
    in_header,    \* parse: local `in_header`
    result,       \* parse: what parse returned (Running until it returns)
    output,       \* to_string(): the text Display wrote for the returned log
    qso_line,     \* parse_qso_line: its argument `line`
    qso_out,      \* parse_qso_line: its Result<QSO, CabrilloError>
    ENTITIES,     \* enricher: the static prefix map generated by build.rs
    callsign,     \* enricher: the argument of the last enrich_callsign call
    found,        \* enricher: the outcome of the last enrich_callsign call
    found2,       \* what enrich_callsign2 returned for `callsign`
    log,          \* a CabrilloLog value its owner validates and serializes
    verdicts,     \* the results of the calls of log.validate(), in call order
    texts,        \* the texts of the calls of log.to_string(), in call order
    rows,         \* build.rs: the lines of data/cty.csv
    row,          \* build.rs: how many of them the row loop has taken
    entities_map, \* build.rs: local `entities_map`
    build,        \* build.rs: Running, Panic, or the map written out
    readers,      \* enricher: the enrich_callsign call of each reader thread
    table,        \* stats: the rows of table qsos, in insertion order
    filter,       \* stats: the QsoFilter of the last query (or None)
    sql,          \* stats: the text of the last query
    answer,       \* stats: what the last query returned
    variant,      \* a text that differs from `content` in white space only
    variant_out   \* what parse returned for `variant`

vars == <<content, lines, pos, headers, qsos, in_header, result, output,
          qso_line, qso_out, ENTITIES, callsign, found, found2,
          log, verdicts, texts, rows, row, entities_map, build,
          readers, table, filter, sql, answer, variant, variant_out>>

parse_vars == <<content, lines, pos, headers, qsos, in_header, result, output>>
qso_vars == <<qso_line, qso_out>>
enrich_vars == <<ENTITIES, callsign, found, found2>>
log_vars == <<log, verdicts, texts>>
build_vars == <<rows, row, entities_map, build>>
reader_vars == <<readers>>
stats_vars == <<table, filter, sql, answer>>
variant_vars == <<variant, variant_out>>

-----------------------------------------------------------------------------
(* Bytes and characters *)

Digits == {"0", "1", "2", "3", "4", "5", "6", "7", "8", "9"}

Letters ==
    {"A", "B", "C", "D", "E", "F", "G", "H", "I", "J", "K", "L", "M",
     "N", "O", "P", "Q", "R", "S", "T", "U", "V", "W", "X", "Y", "Z",
     "a", "b", "c", "d", "e", "f", "g", "h", "i", "j", "k", "l", "m",
     "n", "o", "p", "q", "r", "s", "t", "u", "v", "w", "x", "y", "z"}

\* The two bytes of U+00E9 (e with acute accent): a lead byte and a
\* continuation byte.
LeadBytes == {"C3"}
ContinuationBytes == {"A9"}

\* U+0007 (BEL), written as its two hex digits: one byte, ASCII, a control
\* character and no white space
ControlBytes == {"07"}

\* u8::is_ascii
IsAsciiByte(b) == b \notin (LeadBytes \cup ContinuationBytes)

\* str::is_char_boundary(i), i counted in bytes from 0
is_char_boundary(s, i) ==
    \/ i = 0
    \/ i = Len(s)
    \/ (i < Len(s) /\ s[i + 1] \notin ContinuationBytes)

\* Option<T>, and a call that panicked instead of returning
Panic == [kind |-> "Panic"]
None == [kind |-> "None"]
Some(v) == [kind |-> "Some", value |-> v]

\* str::starts_with
StartsWith(s, p) ==
    /\ Len(p) <= Len(s)
    /\ \A i \in 1..Len(p) : s[i] = p[i]

\* char::is_whitespace, restricted to the white space the model's texts use
WhiteSpace == {" ", "\t", "\n", "\r"}

\* The bytes the model's texts use, in ascending byte value: the order of
\* Ord for u8, which is what str's Ord compares.
ByteOrder ==
    <<"07", "\t", "\n", "\r", " ", "#", "+", "-", ".", "/",
      "0", "1", "2", "3", "4", "5", "6", "7", "8", "9", ":", "=",
      "A", "B", "C", "D", "E", "F", "G", "H", "I", "J", "K", "L", "M",
      "N", "O", "P", "Q", "R", "S", "T", "U", "V", "W", "X", "Y", "Z",
      "a", "b", "c", "d", "e", "f", "g", "h", "i", "j", "k", "l", "m",
      "n", "o", "p", "q", "r", "s", "t", "u", "v", "w", "x", "y", "z",
      "A9", "C3">>

ByteValue(b) == CHOOSE i \in 1..Len(ByteOrder) : ByteOrder[i] = b

\* The value of F at the value of e.  TLC computes e once and binds x to its
\* value, where LET x == e would compute e again at every use of x.
With(e, F(_)) == CHOOSE r \in {F(x) : x \in {e}} : TRUE

Min(a, b) == IF a <= b THEN a ELSE b

\* The first index from i on of a byte of s in set C (not in C), and
\* Len(s) + 1 when there is none; the last index up to i of a byte not in C,
\* and 0 when there is none
RECURSIVE FirstIn(_, _, _)
FirstIn(s, C, i) ==
    IF i > Len(s) THEN i
    ELSE IF s[i] \in C THEN i
    ELSE FirstIn(s, C, i + 1)

RECURSIVE FirstNotIn(_, _, _)
FirstNotIn(s, C, i) ==
    IF i > Len(s) THEN i
    ELSE IF s[i] \notin C THEN i
    ELSE FirstNotIn(s, C, i + 1)

RECURSIVE LastNotIn(_, _, _)
LastNotIn(s, C, i) ==
    IF i = 0 THEN 0
    ELSE IF s[i] \notin C THEN i
    ELSE LastNotIn(s, C, i - 1)

\* The first index at which a and b differ, and Min(Len(a), Len(b)) + 1 when
\* one is a leading substring of the other
RECURSIVE FirstDifference(_, _, _)
FirstDifference(a, b, i) ==
    IF i > Len(a) \/ i > Len(b) THEN i
    ELSE IF a[i] # b[i] THEN i
    ELSE FirstDifference(a, b, i + 1)

\* `a < b` for two strings: Ord for str, bytewise lexicographic
StrLess(a, b) ==
    With(FirstDifference(a, b, 1), LAMBDA i :
        IF i > Len(a) THEN i <= Len(b)
        ELSE IF i > Len(b) THEN FALSE
        ELSE ByteValue(a[i]) < ByteValue(b[i]))

\* str::chars().count(): every byte that is not a continuation byte starts
\* a character
CharCount(s) == Cardinality({i \in 1..Len(s) : s[i] \notin ContinuationBytes})

\* str::trim
Trim(s) ==
    With(FirstNotIn(s, WhiteSpace, 1), LAMBDA b :
        IF b > Len(s) THEN <<>>
        ELSE SubSeq(s, b, LastNotIn(s, WhiteSpace, Len(s))))

\* str::lines: split at "\n"; a line that ended in "\n" also loses one
\* "\r" before it; a final line without line ending is a line unless empty.
\* LinesFrom(s, i) are the lines of s from byte i on.
RECURSIVE LinesFrom(_, _)
LinesFrom(s, i) ==
    IF i > Len(s) THEN <<>>
    ELSE With(FirstIn(s, {"\n"}, i), LAMBDA e :
            <<IF e <= Len(s) /\ e > i /\ s[e - 1] = "\r"
              THEN SubSeq(s, i, e - 2)
              ELSE SubSeq(s, i, e - 1)>> \o LinesFrom(s, e + 1))

Lines(s) == LinesFrom(s, 1)

\* str::split_whitespace().collect(): the maximal runs of non-white-space.
\* TokensFrom(s, i) are those of s from byte i on.
RECURSIVE TokensFrom(_, _)
TokensFrom(s, i) ==
    With(FirstNotIn(s, WhiteSpace, i), LAMBDA b :
        IF b > Len(s) THEN <<>>
        ELSE With(FirstIn(s, WhiteSpace, b), LAMBDA e :
                <<SubSeq(s, b, e - 1)>> \o TokensFrom(s, e)))

split_whitespace(s) == TokensFrom(s, 1)

\* str::split_once(ch): the text before and after the first occurrence
split_once(s, ch) ==
    With(FirstIn(s, {ch}, 1), LAMBDA at :
        IF at > Len(s) THEN None
        ELSE Some(<<SubSeq(s, 1, at - 1), SubSeq(s, at + 1, Len(s))>>))

\* [&str]::join(" ")
RECURSIVE JoinFrom(_, _)
JoinFrom(parts, i) ==
    IF i > Len(parts) THEN <<>>
    ELSE IF i = Len(parts) THEN parts[i]
    ELSE parts[i] \o <<" ">> \o JoinFrom(parts, i + 1)

Join(parts) == JoinFrom(parts, 1)

\* parts[k], parts[a..b] and parts[a..] with the source's indices (from 0)
At(parts, k) == parts[k + 1]
Slice(parts, a, b) == SubSeq(parts, a + 1, b)

-----------------------------------------------------------------------------
(* The entity resolver: src/enricher/src/lib.rs *)

\* (1..=s.len()).rev().map(|i| s[0..i].to_string()).collect()
\* The slice s[0..i] panics when i is not a char boundary; collect() is eager,
\* so one bad index makes the whole call panic.
get_all_prefixes_descending(s) ==
    IF \E i \in 1..Len(s) : ~is_char_boundary(s, i)
    THEN Panic
    ELSE Some([k \in 1..Len(s) |-> SubSeq(s, 1, Len(s) - k + 1)])

\* prefixes.into_iter().filter_map(|p| map.get(&p)).next(), from position k
RECURSIVE FirstHit(_, _, _)
FirstHit(map, prefixes, k) ==
    IF k > Len(prefixes) THEN None
    ELSE IF prefixes[k] \in DOMAIN map THEN Some(map[prefixes[k]])
    ELSE FirstHit(map, prefixes, k + 1)

enrich_callsign(map, c) ==
    LET prefixes == get_all_prefixes_descending(c)
    IN  IF prefixes.kind = "Panic" THEN Panic
        ELSE FirstHit(map, prefixes.value, 1)

-----------------------------------------------------------------------------
(* chrono's parsing and formatting of the two formats lib.rs uses *)

Ok(v) == [kind |-> "Ok", value |-> v]
Err(e) == [kind |-> "Err", error |-> e]

DigitSeq == <<"0", "1", "2", "3", "4", "5", "6", "7", "8", "9">>
DigitValue(c) == (CHOOSE i \in 1..10 : DigitSeq[i] = c) - 1

\* How many bytes a numeric item takes: the leading digits, at most `width`
LeadingDigits(s, width) ==
    Min(width, FirstNotIn(s, Digits, 1) - 1)

RECURSIVE NumberValue(_)
NumberValue(s) ==
    IF s = <<>> THEN 0
    ELSE 10 * NumberValue(SubSeq(s, 1, Len(s) - 1)) + DigitValue(s[Len(s)])

\* A number written with at least `width` digits, zero padded
RECURSIVE ZeroPadded(_, _)
ZeroPadded(n, width) ==
    IF width <= 1 /\ n < 10 THEN <<DigitSeq[n + 1]>>
    ELSE ZeroPadded(n \div 10, width - 1) \o <<DigitSeq[(n % 10) + 1]>>

IsLeapYear(y) == (y % 4 = 0 /\ y % 100 # 0) \/ y % 400 = 0

DaysInMonth(y, m) ==
    IF m = 2 THEN (IF IsLeapYear(y) THEN 29 ELSE 28)
    ELSE IF m \in {4, 6, 9, 11} THEN 30 ELSE 31

\* NaiveDate::parse_from_str(s, "%Y-%m-%d") on a token without a sign: the
\* year takes 1 to 4 digits, month and day 1 to 2 digits each, nothing may
\* follow, and the three numbers must name a day of the calendar.
ParseDate(s) ==
    LET ny == LeadingDigits(s, 4)
        s1 == SubSeq(s, ny + 1, Len(s))
        nm == LeadingDigits(Tail(s1), 2)
        s2 == SubSeq(s1, nm + 2, Len(s1))
        nd == LeadingDigits(Tail(s2), 2)
        y == NumberValue(SubSeq(s, 1, ny))
        m == NumberValue(SubSeq(s1, 2, nm + 1))
        d == NumberValue(SubSeq(s2, 2, nd + 1))
    IN  IF ny = 0 \/ s1 = <<>> \/ s1[1] # "-" THEN Err("date")
        ELSE IF nm = 0 \/ s2 = <<>> \/ s2[1] # "-" THEN Err("date")
        ELSE IF nd = 0 \/ Len(s2) # nd + 1 THEN Err("date")
        ELSE IF m \notin 1..12 \/ d \notin 1..DaysInMonth(y, m) THEN Err("date")
        ELSE Ok([year |-> y, month |-> m, day |-> d])

\* NaiveTime::parse_from_str(s, "%H%M"): hour and minute take 1 to 2 digits
\* each, nothing may follow.
ParseTime(s) ==
    LET nh == LeadingDigits(s, 2)
        s1 == SubSeq(s, nh + 1, Len(s))
        nm == LeadingDigits(s1, 2)
        h == NumberValue(SubSeq(s, 1, nh))
        m == NumberValue(SubSeq(s1, 1, nm))
    IN  IF nh = 0 \/ nm = 0 \/ Len(s1) # nm THEN Err("time")
        ELSE IF h > 23 \/ m > 59 THEN Err("time")
        ELSE Ok([hour |-> h, minute |-> m])

\* date.format("%Y-%m-%d")
FormatDate(d) ==
    ZeroPadded(d.year, 4) \o <<"-">> \o ZeroPadded(d.month, 2)
        \o <<"-">> \o ZeroPadded(d.day, 2)

\* time.format("%H%M")
FormatTime(t) == ZeroPadded(t.hour, 2) \o ZeroPadded(t.minute, 2)

-----------------------------------------------------------------------------
(* The Cabrillo parser: src/cabrillo-log/src/lib.rs *)

InvalidFormat(msg) == [error |-> "InvalidFormat", arg |-> msg]
InvalidDate(token) == [error |-> "InvalidDate", arg |-> token]
InvalidTime(token) == [error |-> "InvalidTime", arg |-> token]
InvalidCallsign(call) == [error |-> "InvalidCallsign", arg |-> call]

STR_QSO == <<"Q", "S", "O", ":">>
STR_X_QSO == <<"X", "-", "Q", "S", "O", ":">>
STR_START_OF_LOG == <<"S", "T", "A", "R", "T", "-", "O", "F", "-", "L", "O", "G", ":">>
STR_END_OF_LOG == <<"E", "N", "D", "-", "O", "F", "-", "L", "O", "G", ":">>
STR_0 == <<"0">>
STR_1 == <<"1">>

is_valid_callsign(call) ==
    LET is_ascii == \A i \in 1..Len(call) : IsAsciiByte(call[i])
        has_digits == \E i \in 1..Len(call) : call[i] \in Digits
        has_letters == \E i \in 1..Len(call) : call[i] \in Letters
    IN  is_ascii /\ has_digits /\ has_letters /\ Len(call) > 2

\* Mutant of ScanForCallsign: the scan keeps the last call-shaped token
\* instead of stopping at the first
ScanForLastCallsign(parts, rcvd_call_index) ==
    IF \E i \in rcvd_call_index..(Len(parts) - 1) : is_valid_callsign(At(parts, i))
    THEN CHOOSE i \in rcvd_call_index..(Len(parts) - 1) :
            /\ is_valid_callsign(At(parts, i))
            /\ \A j \in (i + 1)..(Len(parts) - 1) : ~is_valid_callsign(At(parts, j))
    ELSE Len(parts)

\* while rcvd_call_index < parts.len() && !is_valid_callsign(parts[rcvd_call_index])
RECURSIVE ScanForCallsign(_, _)
ScanForCallsign(parts, rcvd_call_index) ==
    IF rcvd_call_index < Len(parts) /\ ~is_valid_callsign(At(parts, rcvd_call_index))
    THEN ScanForCallsign(parts, rcvd_call_index + 1)
    ELSE rcvd_call_index

\* Mutant of IsTxFlag: only "0" is taken as a transmitter flag
IsTxFlagZeroOnly(token) == token = STR_0

\* parts[parts.len() - 1] == "0" || parts[parts.len() - 1] == "1"
IsTxFlag(token) == token = STR_0 \/ token = STR_1

\* Mutant of NoReceivedCallsign: the failed scan is reported as InvalidCallsign
NoReceivedCallsignAsInvalidCallsign == InvalidCallsign(<<>>)

\* CabrilloError::InvalidFormat("No valid received callsign found".to_string())
NoReceivedCallsign == InvalidFormat("No valid received callsign found")

\* parse_qso_line from `let freq` on, on the tokens of the line
ParseParts(parts) ==
    LET date == ParseDate(At(parts, 3))
        time == ParseTime(At(parts, 4))
        rcvd_call_index == ScanForCallsign(parts, 6)
        sent_rst_exch ==
            IF rcvd_call_index > 6
            THEN Join(Slice(parts, 6, rcvd_call_index))
            ELSE <<>>
        rcvd_start == rcvd_call_index + 1
        last == At(parts, Len(parts) - 1)
        has_tx == IsTxFlag(last)
        tx == IF has_tx THEN Some(last) ELSE None
        rcvd_rst_exch ==
            IF has_tx
            THEN (IF rcvd_start < Len(parts) - 1
                  THEN Join(Slice(parts, rcvd_start, Len(parts) - 1))
                  ELSE <<>>)
            ELSE Join(Slice(parts, rcvd_start, Len(parts)))
    IN  IF date.kind = "Err" THEN Err(InvalidDate(At(parts, 3)))
        ELSE IF time.kind = "Err" THEN Err(InvalidTime(At(parts, 4)))
        ELSE IF rcvd_call_index >= Len(parts)
        THEN Err(NoReceivedCallsign)
        ELSE IF rcvd_start >= Len(parts)
        THEN Err(InvalidFormat("Missing received RST/EXCH"))
        ELSE Ok([freq |-> At(parts, 1), mode |-> At(parts, 2),
                 date |-> date.value, time |-> time.value,
                 sent_call |-> At(parts, 5), sent_rst_exch |-> sent_rst_exch,
                 rcvd_call |-> At(parts, rcvd_call_index),
                 rcvd_rst_exch |-> rcvd_rst_exch, tx |-> tx])

\* Mutant of parse_qso_line: the token count is compared with 9
parse_qso_line_nine_tokens(line) ==
    With(split_whitespace(line), LAMBDA parts :
        IF Len(parts) < 9 \/ At(parts, 0) # STR_QSO
        THEN Err(InvalidFormat("Invalid QSO line"))
        ELSE ParseParts(parts))

parse_qso_line(line) ==
    With(split_whitespace(line), LAMBDA parts :
        IF Len(parts) < 10 \/ At(parts, 0) # STR_QSO
        THEN Err(InvalidFormat("Invalid QSO line"))
        ELSE ParseParts(parts))

Running == [kind |-> "Running"]

\* Mutant of Insert: a key already present keeps its value
InsertKeepingFirst(map, key, value) ==
    [k \in (DOMAIN map) \cup {key} |-> IF k \in DOMAIN map THEN map[k] ELSE value]

\* HashMap::insert(key, value)
Insert(map, key, value) ==
    [k \in (DOMAIN map) \cup {key} |-> IF k = key THEN value ELSE map[k]]

\* Mutant of PushQso: a malformed contact line is skipped, the `?` forgotten
PushQsoSkippingBad(st, line) ==
    With(parse_qso_line(line), LAMBDA qso :
        IF qso.kind = "Err" THEN st
        ELSE [st EXCEPT !.qsos = Append(@, qso.value)])

\* let qso = Self::parse_qso_line(line)?; qsos.push(qso);
PushQso(st, line) ==
    With(parse_qso_line(line), LAMBDA qso :
        IF qso.kind = "Err"
        THEN [st EXCEPT !.result = Err(qso.error)]
        ELSE [st EXCEPT !.qsos = Append(@, qso.value)])

\* The lines the loop of parse skips before it looks at in_header
IsIgnoredLine(line) ==
    \/ line = <<>>
    \/ StartsWith(line, <<"#">>)
    \/ StartsWith(line, STR_START_OF_LOG)
    \/ StartsWith(line, STR_END_OF_LOG)

\* Mutant of ParseLine: key/value lines are stored after the header too
ParseLineHeadersAnywhere(st, line) ==
    IF StartsWith(line, STR_QSO)
    THEN PushQso([st EXCEPT !.in_header = FALSE], line)
    ELSE IF StartsWith(line, STR_X_QSO)
    THEN [st EXCEPT !.in_header = FALSE]
    ELSE With(split_once(line, ":"), LAMBDA kv :
            IF kv.kind = "Some"
            THEN [st EXCEPT !.headers =
                      Insert(@, Trim(kv.value[1]), Trim(kv.value[2]))]
            ELSE st)

\* Mutant of ParseLine: an X-QSO: line in the header is skipped without
\* ending the header
ParseLineXQsoKeepsHeader(st, line) ==
    IF st.in_header
    THEN IF StartsWith(line, STR_QSO)
         THEN PushQso([st EXCEPT !.in_header = FALSE], line)
         ELSE IF StartsWith(line, STR_X_QSO)
         THEN st
         ELSE With(split_once(line, ":"), LAMBDA kv :
                 IF kv.kind = "Some"
                 THEN [st EXCEPT !.headers =
                           Insert(@, Trim(kv.value[1]), Trim(kv.value[2]))]
                 ELSE st)
    ELSE IF StartsWith(line, STR_QSO)
    THEN PushQso(st, line)
    ELSE st

\* The loop body of parse from `else if in_header` on, on the trimmed line
ParseLine(st, line) ==
    IF st.in_header
    THEN IF StartsWith(line, STR_QSO)
         THEN PushQso([st EXCEPT !.in_header = FALSE], line)
         ELSE IF StartsWith(line, STR_X_QSO)
         THEN [st EXCEPT !.in_header = FALSE]
         ELSE With(split_once(line, ":"), LAMBDA kv :
                 IF kv.kind = "Some"
                 THEN [st EXCEPT !.headers =
                           Insert(@, Trim(kv.value[1]), Trim(kv.value[2]))]
                 ELSE st)
    ELSE IF StartsWith(line, STR_QSO)
    THEN PushQso(st, line)
    ELSE st

\* Mutant of parse_step: an END-OF-LOG: line ends the loop, the log read so
\* far is returned
parse_step_ends_at_end_of_log(st, raw_line) ==
    With(Trim(raw_line), LAMBDA line :
        IF StartsWith(line, STR_END_OF_LOG)
        THEN [st EXCEPT !.result = Ok([headers |-> st.headers, qsos |-> st.qsos])]
        ELSE IF IsIgnoredLine(line) THEN st ELSE ParseLine(st, line))

\* Mutant of parse_step: the line is not trimmed
parse_step_untrimmed(st, raw_line) ==
    IF IsIgnoredLine(raw_line) THEN st ELSE ParseLine(st, raw_line)

\* One iteration of `for line in content.lines()`, on the locals
\* st = [headers, qsos, in_header, result]
parse_step(st, raw_line) ==
    With(Trim(raw_line), LAMBDA line :
        IF IsIgnoredLine(line) THEN st ELSE ParseLine(st, line))

RECURSIVE ParseLoop(_, _, _)
ParseLoop(st, text_lines, k) ==
    IF k > Len(text_lines)
    THEN Ok([headers |-> st.headers, qsos |-> st.qsos])
    ELSE With(parse_step(st, text_lines[k]), LAMBDA next :
            IF next.result.kind = "Err" THEN next.result
            ELSE ParseLoop(next, text_lines, k + 1))

\* The locals of parse before its loop
InitialLocals ==
    [headers |-> <<>>, qsos |-> <<>>, in_header |-> TRUE, result |-> Running]

\* CabrilloLog::parse as a function of its argument
parse(text) ==
    With(Lines(text), LAMBDA text_lines : ParseLoop(InitialLocals, text_lines, 1))

-----------------------------------------------------------------------------
(* The validator: validate, validate_qso, is_valid_band, is_valid_mode *)

\* The words f64::from_str takes besides decimal numbers, in either case
FloatWords ==
    {<<<<"i", "n", "f">>, <<"I", "N", "F">>>>,
     <<<<"n", "a", "n">>, <<"N", "A", "N">>>>,
     <<<<"i", "n", "f", "i", "n", "i", "t", "y">>,
       <<"I", "N", "F", "I", "N", "I", "T", "Y">>>>}

\* str::eq_ignore_ascii_case against a word given in lower and upper case
IsWord(s, word) ==
    /\ Len(s) = Len(word[1])
    /\ \A i \in 1..Len(s) : s[i] \in {word[1][i], word[2][i]}

\* The exponent of a decimal number from index i on: nothing, or e or E, an
\* optional sign and at least one digit up to the end
IsExponent(s, i) ==
    \/ i > Len(s)
    \/ /\ s[i] \in {"e", "E"}
       /\ With(IF i < Len(s) /\ s[i + 1] \in {"+", "-"} THEN i + 2 ELSE i + 1,
               LAMBDA d : d <= Len(s) /\ FirstNotIn(s, Digits, d) > Len(s))

\* A decimal number from index i on: digits, an optional point and digits,
\* with a digit on at least one side, and an optional exponent
IsDecimal(s, i) ==
    With(FirstNotIn(s, Digits, i), LAMBDA p :
        IF p <= Len(s) /\ s[p] = "."
        THEN With(FirstNotIn(s, Digits, p + 1), LAMBDA q :
                (p - i) + (q - p - 1) >= 1 /\ IsExponent(s, q))
        ELSE p - i >= 1 /\ IsExponent(s, p))

\* band.parse::<f64>().is_ok()
ParsesAsF64(s) ==
    With(IF s # <<>> /\ s[1] \in {"+", "-"} THEN 2 ELSE 1, LAMBDA i :
        \/ \E word \in FloatWords : IsWord(SubSeq(s, i, Len(s)), word)
        \/ IsDecimal(s, i))

valid_bands ==
    {<<"1", "6", "0">>,
     <<"8", "0">>,
     <<"4", "0">>,
     <<"2", "0">>,
     <<"1", "5">>,
     <<"1", "0">>,
     <<"6">>,
     <<"2">>,
     <<"2", "2", "2">>,
     <<"4", "3", "2">>,
     <<"9", "0", "2">>,
     <<"1", ".", "2", "G">>,
     <<"2", ".", "3", "G">>,
     <<"3", ".", "4", "G">>,
     <<"5", ".", "7", "G">>,
     <<"1", "0", "G">>,
     <<"2", "4", "G">>,
     <<"4", "7", "G">>,
     <<"7", "5", "G">>,
     <<"1", "2", "2", "G">>,
     <<"1", "3", "4", "G">>,
     <<"2", "4", "1", "G">>,
     <<"L", "I", "G", "H", "T">>,
     <<"5", "0">>,
     <<"7", "0">>,
     <<"1", "4", "4">>}

\* fn is_valid_band
is_valid_band(band) == band \in valid_bands \/ ParsesAsF64(band)

valid_modes ==
    {<<"C", "W">>, <<"P", "H">>, <<"F", "M">>, <<"R", "Y">>, <<"D", "G">>}

\* fn is_valid_mode
is_valid_mode(mode) == mode \in valid_modes

\* Mutant of validate_qso: the band is checked before the callsigns
validate_qso_band_first(qso) ==
    IF ~is_valid_band(qso.freq)
    THEN Err(InvalidFormat(<<"Invalid band/freq: ", qso.freq>>))
    ELSE IF qso.sent_call = <<>> \/ ~is_valid_callsign(qso.sent_call)
    THEN Err(InvalidCallsign(qso.sent_call))
    ELSE IF qso.rcvd_call = <<>> \/ ~is_valid_callsign(qso.rcvd_call)
    THEN Err(InvalidCallsign(qso.rcvd_call))
    ELSE IF ~is_valid_mode(qso.mode)
    THEN Err(InvalidFormat(<<"Invalid mode: ", qso.mode>>))
    ELSE IF qso.tx.kind = "Some" /\ qso.tx.value # STR_0 /\ qso.tx.value # STR_1
    THEN Err(InvalidFormat(<<"Invalid transmitter: ", qso.tx.value>>))
    ELSE Ok(<<>>)

\* Mutant of validate_qso: the transmitter flag is not checked
validate_qso_any_tx(qso) ==
    IF qso.sent_call = <<>> \/ ~is_valid_callsign(qso.sent_call)
    THEN Err(InvalidCallsign(qso.sent_call))
    ELSE IF qso.rcvd_call = <<>> \/ ~is_valid_callsign(qso.rcvd_call)
    THEN Err(InvalidCallsign(qso.rcvd_call))
    ELSE IF ~is_valid_band(qso.freq)
    THEN Err(InvalidFormat(<<"Invalid band/freq: ", qso.freq>>))
    ELSE IF ~is_valid_mode(qso.mode)
    THEN Err(InvalidFormat(<<"Invalid mode: ", qso.mode>>))
    ELSE Ok(<<>>)

\* fn validate_qso; Ok(<<>>) is Ok(())
validate_qso(qso) ==
    IF qso.sent_call = <<>> \/ ~is_valid_callsign(qso.sent_call)
    THEN Err(InvalidCallsign(qso.sent_call))
    ELSE IF qso.rcvd_call = <<>> \/ ~is_valid_callsign(qso.rcvd_call)
    THEN Err(InvalidCallsign(qso.rcvd_call))
    ELSE IF ~is_valid_band(qso.freq)
    THEN Err(InvalidFormat(<<"Invalid band/freq: ", qso.freq>>))
    ELSE IF ~is_valid_mode(qso.mode)
    THEN Err(InvalidFormat(<<"Invalid mode: ", qso.mode>>))
    ELSE IF qso.tx.kind = "Some" /\ qso.tx.value # STR_0 /\ qso.tx.value # STR_1
    THEN Err(InvalidFormat(<<"Invalid transmitter: ", qso.tx.value>>))
    ELSE Ok(<<>>)

\* for qso in &self.qsos { Self::validate_qso(qso)?; } from the i-th contact on
RECURSIVE ValidateFrom(_, _)
ValidateFrom(list, i) ==
    IF i > Len(list) THEN Ok(<<>>)
    ELSE With(validate_qso(list[i]), LAMBDA checked :
            IF checked.kind = "Err" THEN checked ELSE ValidateFrom(list, i + 1))

\* pub fn validate(&self)
validate(l) == ValidateFrom(l.qsos, 1)

-----------------------------------------------------------------------------
(* The serializer: impl fmt::Display for CabrilloLog *)

Spaces(n) == [i \in 1..n |-> " "]

\* Mutant of PadTo: a field wider than the column is cut to the width
PadToCut(s, width) ==
    IF CharCount(s) < width THEN s \o Spaces(width - CharCount(s))
    ELSE SubSeq(s, 1, width)

\* Mutant of PadTo: the width is counted in bytes
PadToBytes(s, width) ==
    IF Len(s) < width THEN s \o Spaces(width - Len(s)) ELSE s

\* {:<width}: left-justified, padded with spaces to `width` characters, never
\* cut
PadTo(s, width) ==
    IF CharCount(s) < width THEN s \o Spaces(width - CharCount(s)) ELSE s

\* keys.sort(): the keys in ascending order
RECURSIVE SortedKeys(_)
SortedKeys(keys) ==
    IF keys = {} THEN <<>>
    ELSE With(CHOOSE k \in keys : \A j \in keys \ {k} : StrLess(k, j),
              LAMBDA least : <<least>> \o SortedKeys(keys \ {least}))

\* writeln!(f, "{}: {}", key, self.headers[key]) for the keys from the i-th on
RECURSIVE HeaderLines(_, _, _)
HeaderLines(map, keys, i) ==
    IF i > Len(keys) THEN <<>>
    ELSE keys[i] \o <<":", " ">> \o map[keys[i]] \o <<"\n">>
             \o HeaderLines(map, keys, i + 1)

\* The write! of one contact, with the writeln!(f) that ends its line
QsoLine(qso) ==
    STR_QSO \o <<" ">> \o qso.freq \o <<" ">> \o qso.mode
        \o <<" ">> \o FormatDate(qso.date) \o <<" ">> \o FormatTime(qso.time)
        \o <<" ">> \o PadTo(qso.sent_call, 13)
        \o <<" ">> \o PadTo(qso.sent_rst_exch, 8)
        \o <<" ">> \o PadTo(qso.rcvd_call, 13)
        \o <<" ">> \o PadTo(qso.rcvd_rst_exch, 8)
        \o (IF qso.tx.kind = "Some" THEN <<" ">> \o qso.tx.value ELSE <<>>)
        \o <<"\n">>

RECURSIVE QsoLinesFrom(_, _)
QsoLinesFrom(list, i) ==
    IF i > Len(list) THEN <<>>
    ELSE QsoLine(list[i]) \o QsoLinesFrom(list, i + 1)

\* The orders in which self.headers.keys() may yield the keys of the map: a
\* HashMap iterates in an arbitrary order
KeyOrders(map) ==
    {order \in [1..Cardinality(DOMAIN map) -> DOMAIN map] :
        \A i, j \in DOMAIN order : order[i] = order[j] => i = j}

\* Mutant of sort: the keys are left in iteration order
sort_skipped(keys) == keys

\* keys.sort() on the collected keys
sort(keys) == SortedKeys({keys[i] : i \in DOMAIN keys})

\* fmt, when self.headers.keys() yields the keys in the order `keys`
Display(self, keys) ==
    STR_START_OF_LOG \o <<" ", "3", ".", "0", "\n">>
        \o With(sort(keys), LAMBDA sorted :
                HeaderLines(self.headers, sorted, 1))
        \o QsoLinesFrom(self.qsos, 1)
        \o STR_END_OF_LOG \o <<"\n">>

-----------------------------------------------------------------------------
(* The index build: fn main of src/enricher/build.rs *)

\* str::split(ch).collect(): the pieces between the occurrences of ch, empty
\* pieces kept.  SplitFrom(s, ch, i) are those of s from byte i on.
RECURSIVE SplitFrom(_, _, _)
SplitFrom(s, ch, i) ==
    With(FirstIn(s, {ch}, i), LAMBDA e :
        IF e > Len(s) THEN <<SubSeq(s, i, Len(s))>>
        ELSE <<SubSeq(s, i, e - 1)>> \o SplitFrom(s, ch, e + 1))

split(s, ch) == SplitFrom(s, ch, 1)

\* [&str]::join(",") of the pieces from the i-th on
RECURSIVE JoinCommaFrom(_, _)
JoinCommaFrom(parts, i) ==
    IF i > Len(parts) THEN <<>>
    ELSE IF i = Len(parts) THEN parts[i]
    ELSE parts[i] \o <<",">> \o JoinCommaFrom(parts, i + 1)

\* str::trim_end_matches(';') and str::trim_start_matches('=')
trim_end_matches(s, ch) == SubSeq(s, 1, LastNotIn(s, {ch}, Len(s)))
trim_start_matches(s, ch) == SubSeq(s, FirstNotIn(s, {ch}, 1), Len(s))

\* The bytes of the characters char::is_alphanumeric accepts, among the
\* characters of the model: digits, letters and U+00E9
AlphanumericBytes == Digits \cup Letters \cup LeadBytes \cup ContinuationBytes

\* prefix.chars().filter(|c| c.is_alphanumeric()).collect::<String>()
FilterAlphanumeric(s) == SelectSeq(s, LAMBDA b : b \in AlphanumericBytes)

\* Leading zeros dropped
StripZeros(s) == SubSeq(s, FirstNotIn(s, {"0"}, 1), Len(s))

U32_MAX == <<"4", "2", "9", "4", "9", "6", "7", "2", "9", "5">>

\* str::parse::<u32>().is_ok(): an optional '+', then digits only, at least
\* one, of a value up to u32::MAX
ParsesAsU32(s) ==
    With(IF s # <<>> /\ s[1] = "+" THEN SubSeq(s, 2, Len(s)) ELSE s, LAMBDA d :
        /\ d # <<>>
        /\ \A i \in 1..Len(d) : d[i] \in Digits
        /\ With(StripZeros(d), LAMBDA v :
              \/ Len(v) < Len(U32_MAX)
              \/ Len(v) = Len(U32_MAX) /\ ~StrLess(U32_MAX, v)))

\* The value of a field that parsed as u32 (values below 2^31 in the model)
U32Value(s) ==
    NumberValue(StripZeros(IF s[1] = "+" THEN SubSeq(s, 2, Len(s)) ELSE s))

\* format!("{:.1}", x) of a field that parsed as f64, for the fields of the
\* model's rows, which are written with one decimal or none
OneDecimal(s) ==
    IF \E i \in 1..Len(s) : s[i] = "." THEN s ELSE s \o <<".", "0">>

\* The six fields main unwraps parse on, in the order it parses them
NumericFieldsParse(parts) ==
    /\ ParsesAsU32(At(parts, 2))
    /\ ParsesAsU32(At(parts, 4))
    /\ ParsesAsU32(At(parts, 5))
    /\ ParsesAsF64(At(parts, 6))
    /\ ParsesAsF64(At(parts, 7))
    /\ ParsesAsF64(At(parts, 8))

\* let mut prefixes = vec![] .. prefixes.push(clean_prefix): the cleaned
\* aliases of a row, from the i-th white-space separated alias on
RECURSIVE CleanFrom(_, _)
CleanFrom(aliases, i) ==
    IF i > Len(aliases) THEN <<>>
    ELSE With(Trim(aliases[i]), LAMBDA prefix :
            (IF prefix # <<>> THEN <<FilterAlphanumeric(prefix)>> ELSE <<>>)
                \o CleanFrom(aliases, i + 1))

\* The aliases of a row as written: parts[9..].join(","), the trailing ';'
\* trimmed, split at white space
RowAliases(parts) ==
    split_whitespace(trim_end_matches(JoinCommaFrom(parts, 10), ";"))

prefixes_of(parts) == CleanFrom(RowAliases(parts), 1)

\* Mutant of CountryAndPart: the country field is never split
CountryAndPartUnsplit(country) ==
    [country |-> country, part |-> None]

\* entity_country and part: the country field split at '/', when that gives
\* two pieces
CountryAndPart(country) ==
    With(split(country, "/"), LAMBDA pieces :
        IF (\E i \in 1..Len(country) : country[i] = "/") /\ Len(pieces) = 2
        THEN [country |-> pieces[1], part |-> Some(pieces[2])]
        ELSE [country |-> country, part |-> None])

\* The Entity literal main formats for a row
EntityOf(parts) ==
    With(CountryAndPart(At(parts, 1)), LAMBDA cp :
        [main_prefix |-> At(parts, 0),
         country |-> cp.country,
         cq_zone |-> U32Value(At(parts, 4)),
         itu_zone |-> U32Value(At(parts, 5)),
         continent |-> At(parts, 3),
         latitude |-> OneDecimal(At(parts, 6)),
         longitude |-> OneDecimal(At(parts, 7)),
         time_offset |-> OneDecimal(At(parts, 8)),
         dxcc |-> U32Value(At(parts, 2)),
         part |-> cp.part])

\* Mutant of InsertAll: a key already in the map keeps its entity
RECURSIVE InsertAllIfAbsent(_, _, _, _)
InsertAllIfAbsent(map, keys, i, entity) ==
    IF i > Len(keys) THEN map
    ELSE InsertAllIfAbsent(
             IF trim_start_matches(keys[i], "=") \in DOMAIN map THEN map
             ELSE Insert(map, trim_start_matches(keys[i], "="), entity),
             keys, i + 1, entity)

\* for prefix in prefixes { entities_map.insert(clean_prefix, entity.clone()) }
\* from the i-th prefix on
RECURSIVE InsertAll(_, _, _, _)
InsertAll(map, keys, i, entity) ==
    IF i > Len(keys) THEN map
    ELSE InsertAll(Insert(map, trim_start_matches(keys[i], "="), entity),
                   keys, i + 1, entity)

\* A line the row loop passes over: blank, or with fewer than 10 fields
IsSkippedRow(line) ==
    Trim(line) = <<>> \/ Len(split(Trim(line), ",")) < 10

\* A line on which one of the six unwraps panics
IsPanickingRow(line) ==
    ~IsSkippedRow(line) /\ ~NumericFieldsParse(split(Trim(line), ","))

\* The body of the row loop on a line it neither skips nor panics on
row_step(map, line) ==
    With(split(Trim(line), ","), LAMBDA parts :
        InsertAll(map, prefixes_of(parts), 1, EntityOf(parts)))

-----------------------------------------------------------------------------
(* The statistics: QsoStats of src/stats/src/lib.rs.  The table qsos of the *)
(* in-memory database is a sequence of rows, a row a function from the      *)
(* column names to values; a query is the text format! builds.              *)

\* Display for u32: the decimal digits of n
RECURSIVE Decimal(_)
Decimal(n) ==
    IF n < 10 THEN <<DigitSeq[n + 1]>>
    ELSE Decimal(n \div 10) \o <<DigitSeq[(n % 10) + 1]>>

\* DateTime<Utc>::to_rfc3339 of a timestamp of a year from 0 to 9999, the
\* seconds being 0 as in every contact the parser builds
to_rfc3339(ts) ==
    FormatDate(ts.date) \o <<"T">> \o ZeroPadded(ts.time.hour, 2) \o <<":">>
        \o ZeroPadded(ts.time.minute, 2) \o <<":", "0", "0", "+", "0", "0", ":", "0", "0">>

\* DateTime::parse_from_rfc3339(ts_str).ok(), with_timezone(&Utc): of a text
\* with offset +00:00; None for a text of another shape
parse_from_rfc3339(ts_str) ==
    IF /\ Len(ts_str) = 25
       /\ \A i \in {1, 2, 3, 4, 6, 7, 9, 10, 12, 13, 15, 16, 18, 19} :
             ts_str[i] \in Digits
       /\ ts_str[5] = "-" /\ ts_str[8] = "-" /\ ts_str[11] = "T"
       /\ ts_str[14] = ":" /\ ts_str[17] = ":"
       /\ SubSeq(ts_str, 20, 25) = <<"+", "0", "0", ":", "0", "0">>
    THEN Some([date |-> [year |-> NumberValue(SubSeq(ts_str, 1, 4)),
                         month |-> NumberValue(SubSeq(ts_str, 6, 7)),
                         day |-> NumberValue(SubSeq(ts_str, 9, 10))],
               time |-> [hour |-> NumberValue(SubSeq(ts_str, 12, 13)),
                         minute |-> NumberValue(SubSeq(ts_str, 15, 16))]])
    ELSE None

\* The days from 0000-01-01 to the first day of year y, and from the first
\* day of year y to the first day of its month m
DaysBeforeYear(y) ==
    IF y = 0 THEN 0
    ELSE 365 * y + ((y - 1) \div 4) - ((y - 1) \div 100) + ((y - 1) \div 400) + 1

RECURSIVE DaysBeforeMonth(_, _)
DaysBeforeMonth(y, m) ==
    IF m = 1 THEN 0 ELSE DaysBeforeMonth(y, m - 1) + DaysInMonth(y, m - 1)

DayNumber(d) == DaysBeforeYear(d.year) + DaysBeforeMonth(d.year, d.month) + d.day - 1

\* a.signed_duration_since(b).num_minutes()
num_minutes_since(a, b) ==
    (DayNumber(a.date) - DayNumber(b.date)) * 1440
        + (a.time.hour - b.time.hour) * 60 + (a.time.minute - b.time.minute)

STR_UNKNOWN == <<"U", "n", "k", "n", "o", "w", "n">>

\* frequency_to_band, for the frequencies of the model's contacts: whole
\* numbers of kHz, inf and nan (which are in no range), and text that is no
\* number
frequency_to_band(freq_str) ==
    IF ~ParsesAsF64(freq_str) \/ \E i \in 1..Len(freq_str) : freq_str[i] \notin Digits
    THEN STR_UNKNOWN
    ELSE With(NumberValue(freq_str), LAMBDA khz :
        IF khz \in 1800..2000 THEN <<"1", "6", "0", "m">>
        ELSE IF khz \in 3500..4000 THEN <<"8", "0", "m">>
        ELSE IF khz \in 7000..7300 THEN <<"4", "0", "m">>
        ELSE IF khz \in 10100..10150 THEN <<"3", "0", "m">>
        ELSE IF khz \in 14000..14350 THEN <<"2", "0", "m">>
        ELSE IF khz \in 18068..18168 THEN <<"1", "7", "m">>
        ELSE IF khz \in 21000..21450 THEN <<"1", "5", "m">>
        ELSE IF khz \in 24890..24990 THEN <<"1", "2", "m">>
        ELSE IF khz \in 28000..29700 THEN <<"1", "0", "m">>
        ELSE IF khz \in 50000..54000 THEN <<"6", "m">>
        ELSE IF khz \in 70000..70500 THEN <<"4", "m">>
        ELSE IF khz \in 144000..148000 THEN <<"2", "m">>
        ELSE IF khz \in 420000..450000 THEN <<"7", "0", "c", "m">>
        ELSE STR_UNKNOWN)

COL_ID == <<"i", "d">>
COL_TIMESTAMP == <<"t", "i", "m", "e", "s", "t", "a", "m", "p">>
COL_BAND == <<"b", "a", "n", "d">>
COL_BAND_NAME == <<"b", "a", "n", "d", "_", "n", "a", "m", "e">>
COL_MODE == <<"m", "o", "d", "e">>
COL_SENT_CALL == <<"s", "e", "n", "t", "_", "c", "a", "l", "l">>
COL_RCVD_CALL == <<"r", "c", "v", "d", "_", "c", "a", "l", "l">>
COL_COUNTRY == <<"c", "o", "u", "n", "t", "r", "y">>
COL_CQ_ZONE == <<"c", "q", "_", "z", "o", "n", "e">>
COL_ITU_ZONE == <<"i", "t", "u", "_", "z", "o", "n", "e">>
COL_CONTINENT == <<"c", "o", "n", "t", "i", "n", "e", "n", "t">>
COL_DXCC == <<"d", "x", "c", "c">>

\* enrich_qso and the INSERT of insert_qsos: the row of contact qso with the
\* given id, the entity fields being '' or 0 when the callsign has no entity
InsertedRow(id, qso, entities) ==
    With(enrich_callsign(entities, qso.rcvd_call), LAMBDA entity :
        (COL_ID :> id)
        @@ (COL_TIMESTAMP :> to_rfc3339([date |-> qso.date, time |-> qso.time]))
        @@ (COL_BAND :> qso.freq)
        @@ (COL_BAND_NAME :> frequency_to_band(qso.freq))
        @@ (COL_MODE :> qso.mode)
        @@ (COL_SENT_CALL :> qso.sent_call)
        @@ (COL_RCVD_CALL :> qso.rcvd_call)
        @@ (COL_COUNTRY :> IF entity.kind = "Some" THEN entity.value.country ELSE <<>>)
        @@ (COL_CQ_ZONE :> IF entity.kind = "Some" THEN entity.value.cq_zone ELSE 0)
        @@ (COL_ITU_ZONE :> IF entity.kind = "Some" THEN entity.value.itu_zone ELSE 0)
        @@ (COL_CONTINENT :> IF entity.kind = "Some" THEN entity.value.continent ELSE <<>>)
        @@ (COL_DXCC :> IF entity.kind = "Some" THEN entity.value.dxcc ELSE 0))

\* insert_qsos: the table after QsoStats::new(list)
insert_qsos(list, entities) ==
    [i \in DOMAIN list |-> InsertedRow(i - 1, list[i], entities)]

\* StatsError::DatabaseError and StatsError::NoData
DatabaseError == [error |-> "DatabaseError"]
NoData(msg) == [error |-> "NoData", arg |-> msg]

\* [String]::join(" AND ") of the conditions from the i-th on
RECURSIVE JoinAndFrom(_, _)
JoinAndFrom(conditions, i) ==
    IF i > Len(conditions) THEN <<>>
    ELSE IF i = Len(conditions) THEN conditions[i]
    ELSE conditions[i] \o <<" ", "A", "N", "D", " ">> \o JoinAndFrom(conditions, i + 1)

\* format!("{} = '{}'", column, text) and format!("{} {} {}", column, op, n)
Quoted(text) == <<"'">> \o text \o <<"'">>
Condition(column, op, value) == column \o <<" ">> \o op \o <<" ">> \o value

\* The conditions build_filter_clause pushes for a filter, in its order
FilterConditions(f) ==
    (IF f.band.kind = "Some"
     THEN <<Condition(COL_BAND, <<"=">>, Quoted(f.band.value))>> ELSE <<>>)
    \o (IF f.country.kind = "Some"
        THEN <<Condition(COL_COUNTRY, <<"=">>, Quoted(f.country.value))>> ELSE <<>>)
    \o (IF f.cq_zone.kind = "Some"
        THEN <<Condition(COL_CQ_ZONE, <<"=">>, Decimal(f.cq_zone.value))>> ELSE <<>>)
    \o (IF f.itu_zone.kind = "Some"
        THEN <<Condition(COL_ITU_ZONE, <<"=">>, Decimal(f.itu_zone.value))>> ELSE <<>>)
    \o (IF f.mode.kind = "Some"
        THEN <<Condition(COL_MODE, <<"=">>, Quoted(f.mode.value))>> ELSE <<>>)
    \o (IF f.start_date.kind = "Some"
        THEN <<Condition(COL_TIMESTAMP, <<">", "=">>,
                         Quoted(to_rfc3339(f.start_date.value)))>> ELSE <<>>)
    \o (IF f.end_date.kind = "Some"
        THEN <<Condition(COL_TIMESTAMP, <<"<", "=">>,
                         Quoted(to_rfc3339(f.end_date.value)))>> ELSE <<>>)

\* build_filter_clause: "" without a filter and for a filter with no field
\* set, else " WHERE " and the conditions joined with " AND "
build_filter_clause(f) ==
    IF f.kind = "None" THEN <<>>
    ELSE With(FilterConditions(f.value), LAMBDA conditions :
            IF conditions = <<>> THEN <<>>
            ELSE <<" ", "W", "H", "E", "R", "E", " ">> \o JoinAndFrom(conditions, 1))

KW_WHERE == <<"W", "H", "E", "R", "E">>
KW_AND == <<"A", "N", "D">>
KW_GROUP == <<"G", "R", "O", "U", "P">>
KW_ORDER == <<"O", "R", "D", "E", "R">>

\* The value a condition compares with: the text between the quotes, or the
\* number
LiteralValue(literal) ==
    IF literal[1] = "'" THEN SubSeq(literal, 2, Len(literal) - 1)
    ELSE NumberValue(literal)

\* Whether the row satisfies the condition `column op literal`, given as its
\* white-space separated tokens; TEXT compares bytewise
SatisfiesCondition(r, tokens) ==
    With(LiteralValue(Join(SubSeq(tokens, 3, Len(tokens)))), LAMBDA v :
        IF tokens[2] = <<"=">> THEN r[tokens[1]] = v
        ELSE IF tokens[2] = <<"!", "=">> THEN r[tokens[1]] # v
        ELSE IF tokens[2] = <<">">> THEN r[tokens[1]] > v
        ELSE IF tokens[2] = <<">", "=">> THEN ~StrLess(r[tokens[1]], v)
        ELSE ~StrLess(v, r[tokens[1]]))

\* Whether the row satisfies the conditions, joined by AND, that tokens
\* from..(to - 1) spell
RECURSIVE SatisfiesAll(_, _, _, _)
SatisfiesAll(r, tokens, from, to) ==
    IF from >= to THEN TRUE
    ELSE With(Min(to, FirstIn(tokens, {KW_AND}, from)), LAMBDA and :
            /\ SatisfiesCondition(r, SubSeq(tokens, from, and - 1))
            /\ SatisfiesAll(r, tokens, and + 1, to))

\* The words of a statement: its maximal runs of bytes that are not white
\* space, in their order
SqlWords(query) ==
    With({i \in 1..Len(query) :
             query[i] \notin WhiteSpace /\ (i = 1 \/ query[i - 1] \in WhiteSpace)},
         LAMBDA starts :
             [k \in 1..Cardinality(starts) |->
                 With(CHOOSE i \in starts : Cardinality({j \in starts : j <= i}) = k,
                      LAMBDA from :
                          SubSeq(query, from, FirstIn(query, WhiteSpace, from) - 1))])

\* glue.execute(&sql) of a SELECT ... FROM qsos [WHERE ...] [GROUP BY ...]
\* [ORDER BY ...], up to the rows the WHERE clause keeps: a text with a second
\* WHERE is no statement of SQL and gives an error
execute(query, tbl) ==
    With(SqlWords(query), LAMBDA tokens :
        With({i \in DOMAIN tokens : tokens[i] = KW_WHERE}, LAMBDA wheres :
            IF Cardinality(wheres) > 1 THEN Err(DatabaseError)
            ELSE IF wheres = {} THEN Ok(tbl)
            ELSE With(CHOOSE w \in wheres : TRUE, LAMBDA w :
                    With(FirstIn(tokens, {KW_GROUP, KW_ORDER}, w), LAMBDA end :
                        Ok(SelectSeq(tbl, LAMBDA r :
                               SatisfiesAll(r, tokens, w + 1, end)))))))

\* ORDER BY column, for a TEXT column: the values of the column in ascending
\* bytewise order
RECURSIVE OrderBy(_, _)
OrderBy(selected, column) ==
    IF selected = <<>> THEN <<>>
    ELSE With(CHOOSE i \in DOMAIN selected :
                  \A j \in DOMAIN selected :
                      ~StrLess(selected[j][column], selected[i][column]), LAMBDA first :
            <<selected[first][column]>>
                \o OrderBy([k \in 1..(Len(selected) - 1) |->
                               IF k < first THEN selected[k] ELSE selected[k + 1]],
                           column))

\* rows.iter().filter_map(..).collect(): the timestamps that parse
RECURSIVE TimestampsFrom(_, _)
TimestampsFrom(ordered, i) ==
    IF i > Len(ordered) THEN <<>>
    ELSE With(parse_from_rfc3339(ordered[i]), LAMBDA dt :
            (IF dt.kind = "Some" THEN <<dt.value>> ELSE <<>>)
                \o TimestampsFrom(ordered, i + 1))

RECURSIVE Sum(_, _)
Sum(numbers, i) == IF i > Len(numbers) THEN 0 ELSE numbers[i] + Sum(numbers, i + 1)

\* Mutant of QueryTimestamps: the ORDER BY is left out, the rows come in
\* insertion order
QueryTimestampsUnordered(f) ==
    <<"S", "E", "L", "E", "C", "T", " ", "t", "i", "m", "e", "s", "t", "a", "m", "p", " ", "F", "R", "O", "M", " ", "q", "s", "o", "s">>
        \o build_filter_clause(f)

\* format!("SELECT timestamp FROM qsos{} ORDER BY timestamp", where_clause)
QueryTimestamps(f) ==
    <<"S", "E", "L", "E", "C", "T", " ", "t", "i", "m", "e", "s", "t", "a", "m", "p", " ", "F", "R", "O", "M", " ", "q", "s", "o", "s">>
        \o build_filter_clause(f) \o <<" ", "O", "R", "D", "E", "R", " ", "B", "Y", " ", "t", "i", "m", "e", "s", "t", "a", "m", "p">>

\* time_interval_stats after the query: NoData for fewer than 2 timestamps,
\* else the differences of consecutive timestamps in minutes, their least,
\* their greatest, and their average as the pair of their sum and their number
IntervalStats(timestamps) ==
    IF Len(timestamps) < 2
    THEN Err(NoData("Need at least 2 QSOs for interval statistics"))
    ELSE With([i \in 1..(Len(timestamps) - 1) |->
                  num_minutes_since(timestamps[i + 1], timestamps[i])], LAMBDA intervals :
            Ok([min_minutes |-> CHOOSE x \in {intervals[i] : i \in DOMAIN intervals} :
                                    \A i \in DOMAIN intervals : x <= intervals[i],
                max_minutes |-> CHOOSE x \in {intervals[i] : i \in DOMAIN intervals} :
                                    \A i \in DOMAIN intervals : x >= intervals[i],
                avg_minutes |-> [sum |-> Sum(intervals, 1), of |-> Len(intervals)],
                count |-> Len(intervals)]))

\* QsoStats::time_interval_stats(filter) on the table tbl, given the text of
\* its query
time_interval_stats(query, tbl) ==
    With(execute(query, tbl), LAMBDA selected :
        IF selected.kind = "Err" THEN selected
        ELSE IntervalStats(
                 TimestampsFrom(
                     IF \E t \in {SqlWords(query)} :
                            \E i \in DOMAIN t : t[i] = KW_ORDER
                     THEN OrderBy(selected.value, COL_TIMESTAMP)
                     ELSE [i \in DOMAIN selected.value |->
                              selected.value[i][COL_TIMESTAMP]], 1)))

\* format!("SELECT {}, COUNT(*) FROM qsos{} WHERE {} != '' GROUP BY {} ORDER
\* BY COUNT(*) DESC", column, where_clause, column, column)
QueryGroupBy(column, f) ==
    <<"S", "E", "L", "E", "C", "T", " ">> \o column \o <<",", " ", "C", "O", "U", "N", "T", "(", "*", ")", " ", "F", "R", "O", "M", " ", "q", "s", "o", "s">>
        \o build_filter_clause(f) \o <<" ", "W", "H", "E", "R", "E", " ">> \o column
        \o <<" ", "!", "=", " ", "'", "'", " ", "G", "R", "O", "U", "P", " ", "B", "Y", " ">> \o column
        \o <<" ", "O", "R", "D", "E", "R", " ", "B", "Y", " ", "C", "O", "U", "N", "T", "(", "*", ")", " ", "D", "E", "S", "C">>

\* The query text of qso_per_cq_zone
QueryCqZone(f) ==
    <<"S", "E", "L", "E", "C", "T", " ", "c", "q", "_", "z", "o", "n", "e",
      ",", " ", "C", "O", "U", "N", "T", "(", "*", ")", " ", "F", "R", "O",
      "M", " ", "q", "s", "o", "s">>
        \o build_filter_clause(f)
        \o
    <<" ", "W", "H", "E", "R", "E", " ", "c", "q", "_", "z", "o", "n", "e",
      " ", ">", " ", "0", " ", "G", "R", "O", "U", "P", " ", "B", "Y", " ",
      "c", "q", "_", "z", "o", "n", "e">>

\* The query text of qso_per_country_band
QueryCountryBand(f) ==
    <<"S", "E", "L", "E", "C", "T", " ", "c", "o", "u", "n", "t", "r", "y",
      ",", " ", "\n", " ", " ", " ", " ", " ", " ", " ", " ", " ", " ",
      " ", " ", "S", "U", "M", "(", "C", "A", "S", "E", " ", "W", "H", "E",
      "N", " ", "b", "a", "n", "d", "_", "n", "a", "m", "e", " ", "=", " ",
      "'", "1", "6", "0", "m", "'", " ", "T", "H", "E", "N", " ", "1", " ",
      "E", "L", "S", "E", " ", "0", " ", "E", "N", "D", ")", " ", "A", "S",
      " ", "b", "1", "6", "0", "m", ",", "\n", " ", " ", " ", " ", " ",
      " ", " ", " ", " ", " ", " ", " ", "S", "U", "M", "(", "C", "A", "S",
      "E", " ", "W", "H", "E", "N", " ", "b", "a", "n", "d", "_", "n", "a",
      "m", "e", " ", "=", " ", "'", "8", "0", "m", "'", " ", "T", "H", "E",
      "N", " ", "1", " ", "E", "L", "S", "E", " ", "0", " ", "E", "N", "D",
      ")", " ", "A", "S", " ", "b", "8", "0", "m", ",", "\n", " ", " ",
      " ", " ", " ", " ", " ", " ", " ", " ", " ", " ", "S", "U", "M", "(",
      "C", "A", "S", "E", " ", "W", "H", "E", "N", " ", "b", "a", "n", "d",
      "_", "n", "a", "m", "e", " ", "=", " ", "'", "4", "0", "m", "'", " ",
      "T", "H", "E", "N", " ", "1", " ", "E", "L", "S", "E", " ", "0", " ",
      "E", "N", "D", ")", " ", "A", "S", " ", "b", "4", "0", "m", ",",
      "\n", " ", " ", " ", " ", " ", " ", " ", " ", " ", " ", " ", " ",
      "S", "U", "M", "(", "C", "A", "S", "E", " ", "W", "H", "E", "N", " ",
      "b", "a", "n", "d", "_", "n", "a", "m", "e", " ", "=", " ", "'", "2",
      "0", "m", "'", " ", "T", "H", "E", "N", " ", "1", " ", "E", "L", "S",
      "E", " ", "0", " ", "E", "N", "D", ")", " ", "A", "S", " ", "b", "2",
      "0", "m", ",", "\n", " ", " ", " ", " ", " ", " ", " ", " ", " ",
      " ", " ", " ", "S", "U", "M", "(", "C", "A", "S", "E", " ", "W", "H",
      "E", "N", " ", "b", "a", "n", "d", "_", "n", "a", "m", "e", " ", "=",
      " ", "'", "1", "5", "m", "'", " ", "T", "H", "E", "N", " ", "1", " ",
      "E", "L", "S", "E", " ", "0", " ", "E", "N", "D", ")", " ", "A", "S",
      " ", "b", "1", "5", "m", ",", "\n", " ", " ", " ", " ", " ", " ",
      " ", " ", " ", " ", " ", " ", "S", "U", "M", "(", "C", "A", "S", "E",
      " ", "W", "H", "E", "N", " ", "b", "a", "n", "d", "_", "n", "a", "m",
      "e", " ", "=", " ", "'", "1", "0", "m", "'", " ", "T", "H", "E", "N",
      " ", "1", " ", "E", "L", "S", "E", " ", "0", " ", "E", "N", "D", ")",
      " ", "A", "S", " ", "b", "1", "0", "m", ",", "\n", " ", " ", " ",
      " ", " ", " ", " ", " ", " ", " ", " ", " ", "S", "U", "M", "(", "C",
      "A", "S", "E", " ", "W", "H", "E", "N", " ", "b", "a", "n", "d", "_",
      "n", "a", "m", "e", " ", "=", " ", "'", "6", "m", "'", " ", "T", "H",
      "E", "N", " ", "1", " ", "E", "L", "S", "E", " ", "0", " ", "E", "N",
      "D", ")", " ", "A", "S", " ", "b", "6", "m", ",", "\n", " ", " ",
      " ", " ", " ", " ", " ", " ", " ", " ", " ", " ", "C", "O", "U", "N",
      "T", "(", "*", ")", " ", "a", "s", " ", "t", "o", "t", "a", "l",
      "\n", " ", " ", " ", " ", " ", " ", " ", " ", " ", " ", " ", " ",
      "F", "R", "O", "M", " ", "q", "s", "o", "s">>
        \o build_filter_clause(f)
        \o
    <<" ", "W", "H", "E", "R", "E", " ", "c", "o", "u", "n", "t", "r", "y",
      " ", "!", "=", " ", "'", "'", " ", "A", "N", "D", " ", "b", "a", "n",
      "d", "_", "n", "a", "m", "e", " ", "!", "=", " ", "'", "'", " ", "G",
      "R", "O", "U", "P", " ", "B", "Y", " ", "c", "o", "u", "n", "t", "r",
      "y", " ", "O", "R", "D", "E", "R", " ", "B", "Y", " ", "C", "O", "U",
      "N", "T", "(", "*", ")", " ", "d", "e", "s", "c">>

\* GROUP BY column with COUNT(*): the number of rows of each value
GroupCount(selected, column) ==
    [k \in {selected[i][column] : i \in DOMAIN selected} |->
        Cardinality({i \in DOMAIN selected : selected[i][column] = k})]

\* ORDER BY COUNT(*) DESC: the orders of the groups in which no count is
\* followed by a greater one; groups of equal count come in any order
DescOrders(counts) ==
    {order \in KeyOrders(counts) :
        \A i, j \in DOMAIN order : i < j => counts[order[i]] >= counts[order[j]]}

\* group_by_column after the text of its query is built: the (key, count)
\* pairs it may return
group_by_column(query, column, tbl) ==
    With(execute(query, tbl), LAMBDA selected :
        IF selected.kind = "Err" THEN {selected}
        ELSE With(GroupCount(selected.value, column), LAMBDA counts :
                {Ok([i \in DOMAIN order |-> <<order[i], counts[order[i]]>>]) :
                    order \in DescOrders(counts)}))

\* qso_per_cq_zone after the text of its query is built: the HashMap of
\* zone and count
qso_per_cq_zone(query, tbl) ==
    With(execute(query, tbl), LAMBDA selected :
        IF selected.kind = "Err" THEN selected
        ELSE Ok(GroupCount(selected.value, COL_CQ_ZONE)))

\* SUM(CASE WHEN band_name = band THEN 1 ELSE 0 END) of the group of a country
BandCount(selected, country, band) ==
    Cardinality({i \in DOMAIN selected :
        selected[i][COL_COUNTRY] = country /\ selected[i][COL_BAND_NAME] = band})

\* The QSOByBand of the group of a country
QSOByBand(selected, country, total) ==
        [item |-> country,
         count160m |-> BandCount(selected, country, <<"1", "6", "0", "m">>),
         count80m |-> BandCount(selected, country, <<"8", "0", "m">>),
         count40m |-> BandCount(selected, country, <<"4", "0", "m">>),
         count20m |-> BandCount(selected, country, <<"2", "0", "m">>),
         count15m |-> BandCount(selected, country, <<"1", "5", "m">>),
         count10m |-> BandCount(selected, country, <<"1", "0", "m">>),
         count6m |-> BandCount(selected, country, <<"6", "m">>),
         total |-> total]

\* qso_per_country_band after the text of its query is built: the lists it
\* may return
qso_per_country_band(query, tbl) ==
    With(execute(query, tbl), LAMBDA selected :
        IF selected.kind = "Err" THEN {selected}
        ELSE With(GroupCount(selected.value, COL_COUNTRY), LAMBDA counts :
                {Ok([i \in DOMAIN order |->
                        QSOByBand(selected.value, order[i], counts[order[i]])]) :
                    order \in DescOrders(counts)}))

-----------------------------------------------------------------------------
(* Values of the variables of an operation that is not running *)

NotCalled == [kind |-> "NotCalled"]

ParseIdle ==
    /\ content = <<>>
    /\ lines = <<>>
    /\ pos = 0
    /\ headers = <<>>
    /\ qsos = <<>>
    /\ in_header = TRUE
    /\ result = NotCalled
    /\ output = NotCalled

QsoIdle ==
    /\ qso_line = <<>>
    /\ qso_out = NotCalled

EnrichIdle ==
    /\ ENTITIES = <<>>
    /\ callsign = <<>>
    /\ found = NotCalled
    /\ found2 = NotCalled

LogIdle ==
    /\ log = [headers |-> <<>>, qsos |-> <<>>]
    /\ verdicts = <<>>
    /\ texts = <<>>

ReadersIdle ==
    readers = <<>>

StatsIdle ==
    /\ table = <<>>
    /\ filter = None
    /\ sql = <<>>
    /\ answer = NotCalled

VariantIdle ==
    /\ variant = <<>>
    /\ variant_out = NotCalled

BuildIdle ==
    /\ rows = <<>>
    /\ row = 0
    /\ entities_map = <<>>
    /\ build = NotCalled

-----------------------------------------------------------------------------
(* Spec: CabrilloLog::parse run line by line on a text, then to_string()   *)
(* on the log it returned                                                  *)

MaxLines == 3

\* a line of white space only
LINE_BLANK ==
    <<" ">>

\* a comment that would otherwise be a header line
LINE_COMMENT ==
    <<"#", "A", ":", " ", "x">>

LINE_START ==
    <<"S", "T", "A", "R", "T", "-", "O", "F", "-", "L", "O", "G", ":", " ",
      "2", ".", "0">>

LINE_END ==
    <<"E", "N", "D", "-", "O", "F", "-", "L", "O", "G", ":">>

LINE_HEADER ==
    <<"A", ":", " ", "x">>

\* a key that differs in case only, and a value with a colon
LINE_HEADER_LOWER ==
    <<"a", ":", "y", ":", "z">>

\* the key A again, with white space around it
LINE_HEADER_AGAIN ==
    <<" ", "A", " ", ":", "w">>

\* the key QSO: the line does not start with "QSO:"
LINE_HEADER_QSO ==
    <<"Q", "S", "O", " ", ":", " ", "x">>

\* the key START-OF-LOG: the line does not start with "START-OF-LOG:"
LINE_HEADER_START ==
    <<"S", "T", "A", "R", "T", "-", "O", "F", "-", "L", "O", "G", " ", ":",
      "3">>

LINE_NO_COLON ==
    <<"J", "U", "N", "K">>

LINE_QSO_TX ==
    <<"Q", "S", "O", ":", " ", "7", " ", "C", "W", " ", "2", "0", "2", "3",
      "-", "1", "0", "-", "0", "1", " ", "1", "2", "0", "0", " ", "N", "1",
      "M", " ", "5", "9", " ", "W", "1", "A", " ", "5", "9", " ", "0">>

\* no transmitter flag, a call-shaped token in the received exchange, a date
\* and a time that are not written the way the serializer writes them
LINE_QSO_NO_TX ==
    <<"Q", "S", "O", ":", " ", "7", " ", "C", "W", " ", "2", "0", "2", "3",
      "-", "1", "-", "1", " ", "1", "2", "0", " ", "N", "1", "M", " ", "5",
      "9", " ", "K", "2", "B", " ", " ", "W", "1", "A", " ", "5", "9",
      "\r">>

\* a contact line with too few tokens
LINE_QSO_SHORT ==
    <<"Q", "S", "O", ":", " ", "x">>

\* a contact line whose date is no day of the calendar
LINE_QSO_BAD_DATE ==
    <<"Q", "S", "O", ":", " ", "7", " ", "C", "W", " ", "2", "0", "2", "3",
      "-", "2", "-", "3", "0", " ", "1", "2", "0", "0", " ", "N", "1", "M",
      " ", "5", "9", " ", "W", "1", "A", " ", "5", "9", " ", "0">>

LINE_X_QSO ==
    <<"X", "-", "Q", "S", "O", ":", " ", "x">>

LinePool ==
    {LINE_BLANK,
     LINE_COMMENT,
     LINE_START,
     LINE_END,
     LINE_HEADER,
     LINE_HEADER_LOWER,
     LINE_HEADER_AGAIN,
     LINE_HEADER_QSO,
     LINE_HEADER_START,
     LINE_NO_COLON,
     LINE_QSO_TX,
     LINE_QSO_NO_TX,
     LINE_QSO_SHORT,
     LINE_QSO_BAD_DATE,
     LINE_X_QSO}

\* The texts of up to n lines of the pool, each line ended by "\n"
RECURSIVE TextsUpTo(_)
TextsUpTo(n) ==
    IF n = 0 THEN {<<>>}
    ELSE With(TextsUpTo(n - 1), LAMBDA shorter :
            shorter \cup {t \o l \o <<"\n">> : t \in shorter, l \in LinePool})

Init ==
    /\ content \in TextsUpTo(MaxLines)
    /\ lines = Lines(content)
    /\ pos = 0
    /\ headers = <<>>
    /\ qsos = <<>>
    /\ in_header = TRUE
    /\ result = Running
    /\ output = NotCalled
    /\ QsoIdle
    /\ EnrichIdle
    /\ LogIdle
    /\ BuildIdle
    /\ ReadersIdle
    /\ StatsIdle
    /\ VariantIdle

\* The loop is in progress and has a line left
Scanning == result = Running /\ pos < Len(lines)

\* The line the loop looks at next, trimmed
CurrentLine == Trim(lines[pos + 1])

\* The loop body runs on the next line
Consume ==
    \E st \in {parse_step([headers |-> headers, qsos |-> qsos,
                           in_header |-> in_header, result |-> result],
                          lines[pos + 1])} :
        /\ pos' = pos + 1
        /\ headers' = st.headers
        /\ qsos' = st.qsos
        /\ in_header' = st.in_header
        /\ result' = st.result
        /\ UNCHANGED <<content, lines, output, qso_vars, enrich_vars, log_vars, build_vars,
                   reader_vars, stats_vars, variant_vars>>

\* lib.rs 114-118: an empty line, a comment, START-OF-LOG: or END-OF-LOG:
SkipIgnored ==
    /\ Scanning
    /\ IsIgnoredLine(CurrentLine)
    /\ Consume

\* lib.rs 120-123: the first QSO: line ends the header
HeaderQso ==
    /\ Scanning
    /\ ~IsIgnoredLine(CurrentLine)
    /\ in_header
    /\ StartsWith(CurrentLine, STR_QSO)
    /\ Consume

\* lib.rs 124-126: an X-QSO: line ends the header
HeaderXQso ==
    /\ Scanning
    /\ ~IsIgnoredLine(CurrentLine)
    /\ in_header
    /\ ~StartsWith(CurrentLine, STR_QSO)
    /\ StartsWith(CurrentLine, STR_X_QSO)
    /\ Consume

\* lib.rs 127-129: any other line of the header
HeaderKeyValue ==
    /\ Scanning
    /\ ~IsIgnoredLine(CurrentLine)
    /\ in_header
    /\ ~StartsWith(CurrentLine, STR_QSO)
    /\ ~StartsWith(CurrentLine, STR_X_QSO)
    /\ Consume

\* lib.rs 130-132: a QSO: line after the header
BodyQso ==
    /\ Scanning
    /\ ~IsIgnoredLine(CurrentLine)
    /\ ~in_header
    /\ StartsWith(CurrentLine, STR_QSO)
    /\ Consume

\* lib.rs 133-136: any other line after the header
BodyOther ==
    /\ Scanning
    /\ ~IsIgnoredLine(CurrentLine)
    /\ ~in_header
    /\ ~StartsWith(CurrentLine, STR_QSO)
    /\ Consume

\* lib.rs 139: Ok(CabrilloLog { headers, qsos })
Return ==
    /\ result = Running
    /\ pos = Len(lines)
    /\ result' = Ok([headers |-> headers, qsos |-> qsos])
    /\ UNCHANGED <<content, lines, pos, headers, qsos, in_header, output,
                   qso_vars, enrich_vars, log_vars, build_vars,
                   reader_vars, stats_vars, variant_vars>>

\* log.to_string() on the log parse returned
to_string ==
    /\ result.kind = "Ok"
    /\ output = NotCalled
    /\ \E keys \in KeyOrders(result.value.headers) :
          output' = Some(Display(result.value, keys))
    /\ UNCHANGED <<content, lines, pos, headers, qsos, in_header, result,
                   qso_vars, enrich_vars, log_vars, build_vars,
                   reader_vars, stats_vars, variant_vars>>

Next ==
    \/ SkipIgnored
    \/ HeaderQso
    \/ HeaderXQso
    \/ HeaderKeyValue
    \/ BodyQso
    \/ BodyOther
    \/ Return
    \/ to_string

Spec == Init /\ [][Next]_vars

-----------------------------------------------------------------------------
(* Properties of parse and to_string, checked under Spec *)

\* The i-th line of the text as the loop sees it
TrimmedLine(i) == Trim(lines[i])

IsQsoLine(line) == StartsWith(line, STR_QSO)
IsXQsoLine(line) == StartsWith(line, STR_X_QSO)

\* A line the header stores: not ignored, no QSO: or X-QSO: line, with a colon
IsKeyValueLine(line) ==
    /\ ~IsIgnoredLine(line)
    /\ ~IsQsoLine(line)
    /\ ~IsXQsoLine(line)
    /\ \E i \in 1..Len(line) : line[i] = ":"

\* The place of the first colon of a line that has one
FirstColon(line) ==
    CHOOSE i \in 1..Len(line) :
        line[i] = ":" /\ \A j \in 1..(i - 1) : line[j] # ":"

KeyOf(line) == Trim(SubSeq(line, 1, FirstColon(line) - 1))
ValueOf(line) == Trim(SubSeq(line, FirstColon(line) + 1, Len(line)))

\* The first QSO: or X-QSO: line among the first n lines, n + 1 if none
FirstBodyLine(n) ==
    IF \E i \in 1..n : IsQsoLine(TrimmedLine(i)) \/ IsXQsoLine(TrimmedLine(i))
    THEN CHOOSE i \in 1..n :
            /\ IsQsoLine(TrimmedLine(i)) \/ IsXQsoLine(TrimmedLine(i))
            /\ \A j \in 1..(i - 1) :
                  ~(IsQsoLine(TrimmedLine(j)) \/ IsXQsoLine(TrimmedLine(j)))
    ELSE n + 1

\* The contact lines of the text that parse_qso_line rejects
MalformedContactLines ==
    {i \in 1..Len(lines) :
        IsQsoLine(TrimmedLine(i)) /\ parse_qso_line(TrimmedLine(i)).kind = "Err"}

StrKeyStartOfLog == <<"S", "T", "A", "R", "T", "-", "O", "F", "-", "L", "O", "G">>
StrKeyEndOfLog == <<"E", "N", "D", "-", "O", "F", "-", "L", "O", "G">>

\* C1: whenever parse succeeds with log L, parsing the text to_string() writes
\* for L succeeds too and gives a log with the same headers and the same
\* contacts in the same order, every field identical.
C1_RoundTrip ==
    output.kind = "Some" => parse(output.value) = Ok(result.value)

\* C4: parsing is all or nothing.  parse returns an error exactly when the
\* text has a malformed contact line; the error is the one of the first such
\* line, it carries no log, and no line after that one is ever looked at.
C4_AllOrNothing ==
    /\ result.kind = "Err" =>
          /\ MalformedContactLines # {}
          /\ pos \in MalformedContactLines
          /\ \A i \in MalformedContactLines : pos <= i
          /\ result = Err(parse_qso_line(TrimmedLine(pos)).error)
          /\ output = NotCalled
    /\ result.kind = "Ok" => MalformedContactLines = {}
    /\ \A i \in MalformedContactLines : pos <= i

\* A valid contact, then a malformed contact line, then a line never looked at
C4_Witness ==
    /\ result.kind = "Err"
    /\ qsos # <<>>
    /\ pos < Len(lines)

\* C7: in_header starts true, is false from the first QSO: or X-QSO: line on
\* and never true again; from then on no line changes the headers, so the
\* headers parse returns are those of the lines before that first line.
C7_HeaderBodySeparation ==
    [][/\ pos = 0 => in_header
       /\ in_header' <=> FirstBodyLine(pos') > pos'
       /\ ~in_header => (~in_header' /\ headers' = headers)
       /\ result'.kind = "Ok" =>
             result'.value.headers =
                 ParseLoop(InitialLocals,
                           SubSeq(lines, 1, FirstBodyLine(Len(lines)) - 1),
                           1).value.headers]_vars

\* A key/value line has been taken after the header ended, and dropped
C7_Witness ==
    /\ result = Running
    /\ pos > 1
    /\ ~in_header
    /\ IsKeyValueLine(TrimmedLine(pos))
    /\ KeyOf(TrimmedLine(pos)) \notin DOMAIN headers

\* C8: an X-QSO: line, whatever follows the tag, adds no contact and raises no
\* error; it ends the header, so a header line after it is dropped.
C8_XQsoDiscarded ==
    [][/\ (Scanning /\ IsXQsoLine(CurrentLine)) =>
             /\ qsos' = qsos
             /\ headers' = headers
             /\ result' = Running
             /\ in_header' = FALSE
             /\ pos' = pos + 1
       /\ (/\ Scanning
           /\ IsKeyValueLine(CurrentLine)
           /\ \E i \in 1..pos : IsXQsoLine(TrimmedLine(i))) =>
             headers' = headers]_vars

\* An X-QSO: line with too few tokens for a contact opened the text, and the
\* header line after it was dropped
C8_Witness ==
    /\ result = Running
    /\ pos = 2
    /\ IsXQsoLine(TrimmedLine(1))
    /\ Len(split_whitespace(TrimmedLine(1))) < 10
    /\ IsKeyValueLine(TrimmedLine(2))
    /\ headers = <<>>
    /\ qsos = <<>>

\* The lines of the pool that parse ignores
IgnoredLines == {l \in LinePool : IsIgnoredLine(Trim(l))}

InsertedAt(ls, i, l) == SubSeq(ls, 1, i) \o <<l>> \o SubSeq(ls, i + 1, Len(ls))
RemovedAt(ls, i) == SubSeq(ls, 1, i - 1) \o SubSeq(ls, i + 1, Len(ls))

\* C9: a blank line, a comment, a START-OF-LOG: and an END-OF-LOG: line change
\* neither the headers, the contacts nor in_header; inserting or deleting such
\* a line anywhere leaves the result of parse the same; and no header with
\* the key START-OF-LOG or END-OF-LOG is ever stored.
C9_IgnoredLinesChangeNothing ==
    [][/\ (Scanning /\ IsIgnoredLine(CurrentLine)) =>
             UNCHANGED <<headers, qsos, in_header, result>>
       /\ pos = 0 =>
             /\ \A i \in 0..Len(lines) : \A l \in IgnoredLines :
                   ParseLoop(InitialLocals, InsertedAt(lines, i, l), 1)
                       = ParseLoop(InitialLocals, lines, 1)
             /\ \A i \in 1..Len(lines) :
                   IsIgnoredLine(TrimmedLine(i)) =>
                       ParseLoop(InitialLocals, RemovedAt(lines, i), 1)
                           = ParseLoop(InitialLocals, lines, 1)
       /\ StrKeyStartOfLog \notin DOMAIN headers'
       /\ StrKeyEndOfLog \notin DOMAIN headers']_vars

\* The key/value lines among the first n lines, while the header lasts
HeaderLinesUpTo(n) ==
    {i \in 1..n : i < FirstBodyLine(n) /\ IsKeyValueLine(TrimmedLine(i))}

\* C10: in the header, a line that is neither ignored nor a QSO: or X-QSO:
\* line is split at its first colon into key and value, both trimmed; keys
\* that differ in case only are different keys; of several lines with one
\* key the last one gives the value.
C10_HeaderLines ==
    result.kind \in {"Running", "Ok"} =>
        /\ DOMAIN headers = {KeyOf(TrimmedLine(i)) : i \in HeaderLinesUpTo(pos)}
        /\ \A i \in HeaderLinesUpTo(pos) :
              (\A j \in HeaderLinesUpTo(pos) :
                    j > i => KeyOf(TrimmedLine(j)) # KeyOf(TrimmedLine(i)))
                  => headers[KeyOf(TrimmedLine(i))] = ValueOf(TrimmedLine(i))

\* Three header lines: a key, the same key in lower case, the first key
\* again with another value, which replaced the first value
C10_Witness ==
    /\ pos = 3
    /\ HeaderLinesUpTo(3) = {1, 2, 3}
    /\ KeyOf(TrimmedLine(1)) = KeyOf(TrimmedLine(3))
    /\ ValueOf(TrimmedLine(1)) # ValueOf(TrimmedLine(3))
    /\ Cardinality(DOMAIN headers) = 2
    /\ headers[KeyOf(TrimmedLine(1))] = ValueOf(TrimmedLine(3))
    /\ \E i \in 1..Len(ValueOf(TrimmedLine(2))) : ValueOf(TrimmedLine(2))[i] = ":"

\* The text of a line "START-OF-LOG: 3.0"
StrStartOfLog30 == StrKeyStartOfLog \o <<":", " ", "3", ".", "0">>

\* Lines first + 1 .. first + n of the text are the header lines of the map,
\* one per key, the keys ascending
AreHeaderLines(text_lines, first, map) ==
    \E order \in KeyOrders(map) :
        /\ \A i, j \in DOMAIN order : i < j => StrLess(order[i], order[j])
        /\ \A i \in DOMAIN order :
              text_lines[first + i] = order[i] \o <<":", " ">> \o map[order[i]]

\* C16: the text to_string writes is the line "START-OF-LOG: 3.0", whatever
\* version the parsed text declared, then one "KEY: value" line per header in
\* ascending key order, then one QSO line per contact in stored order, then
\* the line "END-OF-LOG:"; the text depends on the headers and contacts only,
\* not on the order in which the map yields its keys.
C16_SerializerLayout ==
    output.kind = "Some" =>
        \E text_lines \in {Lines(output.value)} :
        \E n \in {Cardinality(DOMAIN result.value.headers)} :
            /\ output.value[Len(output.value)] = "\n"
            /\ Len(text_lines) = n + Len(result.value.qsos) + 2
            /\ text_lines[1] = StrStartOfLog30
            /\ AreHeaderLines(text_lines, 1, result.value.headers)
            /\ \A i \in DOMAIN result.value.qsos :
                  text_lines[1 + n + i] \o <<"\n">> = QsoLine(result.value.qsos[i])
            /\ text_lines[Len(text_lines)] = STR_END_OF_LOG

\* A text that declares version 2.0 and whose two header lines come in
\* descending key order was parsed and written out
C16_Witness ==
    /\ output.kind = "Some"
    /\ Len(lines) = 3
    /\ lines[1] = LINE_START
    /\ HeaderLinesUpTo(3) = {2, 3}
    /\ StrLess(KeyOf(TrimmedLine(3)), KeyOf(TrimmedLine(2)))

\* The number of lines among the first n of the text that start, once
\* trimmed, with "QSO:"
QsoLineCount(n) ==
    Cardinality({k \in 1..n : StartsWith(Trim(lines[k]), STR_QSO)})

\* What a step may do to the contacts: nothing when no line is read or the
\* line read is no QSO: line, else append the contact of the line, or fail
\* with the error of the line
ContactsStep ==
    /\ (pos' = pos) => (qsos' = qsos)
    /\ (pos' # pos) =>
          \E line \in {Trim(lines[pos + 1])} :
              IF StartsWith(line, STR_QSO)
              THEN \E qso \in {parse_qso_line(line)} :
                       IF qso.kind = "Ok"
                       THEN qsos' = Append(qsos, qso.value) /\ result' = Running
                       ELSE qsos' = qsos /\ result' = Err(qso.error)
              ELSE qsos' = qsos /\ result' = Running

\* C28: a successful parse returns one contact per trimmed line that starts
\* with "QSO:", lines after an END-OF-LOG: line included; during the scan the
\* contacts are those of the QSO: lines read so far, each step leaving them as
\* they are or appending the contact of the line it reads, so they are in file
\* order and a prefix of the final sequence; a malformed QSO: line, wherever
\* it stands, makes the parse fail.
C28_ContactsInFileOrder ==
    /\ [](result.kind = "Ok" =>
            (pos = Len(lines) /\ Len(result.value.qsos) = QsoLineCount(Len(lines))))
    /\ [](result = Running => Len(qsos) = QsoLineCount(pos))
    /\ [][ContactsStep]_vars

\* A contact line, an END-OF-LOG: line and one more contact line were parsed:
\* the log has both contacts, that of the first line first
C28_Witness ==
    /\ result.kind = "Ok"
    /\ Len(lines) = 3
    /\ Trim(lines[2]) = LINE_END
    /\ Len(result.value.qsos) = 2
    /\ result.value.qsos[1].tx = Some(STR_0)
    /\ result.value.qsos[2].tx = None

-----------------------------------------------------------------------------
(* SpecVariant: parse called on a text and on the same text written with  *)
(* other line endings or other white space                                 *)

MaxVariantLines == 2

VariantLinePool ==
    {LINE_BLANK, LINE_COMMENT, LINE_END, LINE_HEADER, LINE_HEADER_AGAIN,
     LINE_QSO_TX, LINE_QSO_NO_TX, LINE_QSO_BAD_DATE, LINE_X_QSO}

RECURSIVE LineListsUpTo(_)
LineListsUpTo(n) ==
    IF n = 0 THEN {<<>>}
    ELSE With(LineListsUpTo(n - 1), LAMBDA shorter :
            shorter \cup {Append(ls, l) : ls \in shorter, l \in VariantLinePool})

\* The text of the lines ls from the i-th on, each ended by eol
RECURSIVE TextFrom(_, _, _)
TextFrom(ls, eol, i) ==
    IF i > Len(ls) THEN <<>> ELSE ls[i] \o eol \o TextFrom(ls, eol, i + 1)

\* The line with white space added before and after it
Padded(line) == <<"\t", " ">> \o line \o <<" ", "\t">>

\* The line from byte i on with a tab added after every white space byte
RECURSIVE WidenedFrom(_, _)
WidenedFrom(line, i) ==
    IF i > Len(line) THEN <<>>
    ELSE (IF line[i] \in WhiteSpace THEN <<line[i], "\t">> ELSE <<line[i]>>)
            \o WidenedFrom(line, i + 1)

\* The texts that differ from the LF text of the lines ls in the line endings,
\* in the white space around one line or in the white space between the
\* tokens of one QSO line
VariantsOf(ls) ==
    {TextFrom(ls, <<"\r", "\n">>, 1)}
    \cup {TextFrom([ls EXCEPT ![i] = Padded(@)], <<"\n">>, 1) : i \in DOMAIN ls}
    \cup {TextFrom([ls EXCEPT ![i] = WidenedFrom(@, 1)], <<"\n">>, 1) :
            i \in {j \in DOMAIN ls : StartsWith(Trim(ls[j]), STR_QSO)}}

VariantInit ==
    /\ \E ls \in LineListsUpTo(MaxVariantLines) :
          /\ content = TextFrom(ls, <<"\n">>, 1)
          /\ variant \in VariantsOf(ls)
    /\ lines = <<>>
    /\ pos = 0
    /\ headers = <<>>
    /\ qsos = <<>>
    /\ in_header = TRUE
    /\ result = NotCalled
    /\ output = NotCalled
    /\ variant_out = NotCalled
    /\ QsoIdle
    /\ EnrichIdle
    /\ LogIdle
    /\ BuildIdle
    /\ ReadersIdle
    /\ StatsIdle

\* CabrilloLog::parse(content)
ParseContent ==
    /\ result = NotCalled
    /\ result' = parse(content)
    /\ UNCHANGED <<content, lines, pos, headers, qsos, in_header, output,
                   qso_vars, enrich_vars, log_vars, build_vars, reader_vars,
                   stats_vars, variant_vars>>

\* CabrilloLog::parse(variant)
ParseVariant ==
    /\ variant_out = NotCalled
    /\ variant_out' = parse(variant)
    /\ UNCHANGED <<variant, parse_vars, qso_vars, enrich_vars, log_vars,
                   build_vars, reader_vars, stats_vars>>

VariantNext == ParseContent \/ ParseVariant

SpecVariant == VariantInit /\ [][VariantNext]_vars

\* C24: parse gives the same result, the same log or the same error, for a
\* text with LF line endings and for the same text with CRLF line endings,
\* with white space added before and after a line, or with more white space
\* between the tokens of a QSO line.
C24_WhiteSpaceInsensitive ==
    (result # NotCalled /\ variant_out # NotCalled) => variant_out = result

\* Both texts gave a log with a header and a contact; no line of the first
\* text ends in CRLF and every line of the second does
C24_Witness ==
    /\ variant_out = result
    /\ result.kind = "Ok"
    /\ result.value.headers # <<>>
    /\ result.value.qsos # <<>>
    /\ \A i \in 2..Len(content) : content[i] = "\n" => content[i - 1] # "\r"
    /\ \A i \in 2..Len(variant) : variant[i] = "\n" => variant[i - 1] = "\r"

-----------------------------------------------------------------------------
(* SpecQso: parse_qso_line applied to one contact line *)

MaxTail == 4

TOK_FREQ == <<"7">>
TOK_MODE == <<"C", "W">>
TOK_DATE == <<"2", "0", "2", "3", "-", "1", "0", "-", "0", "1">>
TOK_BAD_DATE == <<"2", "0", "2", "3", "-", "2", "-", "3", "0">>
TOK_TIME == <<"1", "2", "0", "0">>
TOK_BAD_TIME == <<"2", "4", "6", "0">>
TOK_SENT_CALL == <<"N", "1", "M">>
TOK_RST == <<"5", "9">>
TOK_CALL == <<"W", "1", "A">>
TOK_NON_ASCII == <<"A", "C3", "A9", "1">>
TOK_BELL == <<"W", "1", "07">>
TOK_BAD_BAND == <<"4", "O", "M">>
TOK_BAD_MODE == <<"c", "w">>
TOK_BAD_SENT == <<"N", "1">>

\* What may follow the sent callsign: exchange tokens, call-shaped tokens,
\* the transmitter flags, a token with a two-byte character and a token with
\* a control character
TailTokens == {TOK_RST, TOK_CALL, STR_0, STR_1, TOK_NON_ASCII, TOK_BELL}

\* A first token that starts with "QSO:", as parse requires, but is not "QSO:"
TOK_QSO_GLUED == STR_QSO \o TOK_FREQ

HeadTokens == {STR_QSO, TOK_QSO_GLUED}

RECURSIVE TokenSeqsUpTo(_)
TokenSeqsUpTo(n) ==
    IF n = 0 THEN {<<>>}
    ELSE With(TokenSeqsUpTo(n - 1), LAMBDA shorter :
            shorter \cup {Append(t, x) : t \in shorter, x \in TailTokens})

\* Two tails that make a contact, for the lines whose band, mode or sent
\* callsign validate rejects
ContactTails ==
    {<<TOK_RST, TOK_CALL, TOK_RST, TOK_RST>>, <<TOK_RST, TOK_BELL, TOK_RST, STR_1>>}

\* Every date, time and tail after "QSO:"; after the other first token, which
\* is rejected before the date is looked at, the good date and time only; and
\* every band, mode and sent callsign before the two tails of a contact
QsoLines ==
    {Join(<<STR_QSO, TOK_FREQ, TOK_MODE, d, t, TOK_SENT_CALL>> \o tail) :
        d \in {TOK_DATE, TOK_BAD_DATE}, t \in {TOK_TIME, TOK_BAD_TIME},
        tail \in TokenSeqsUpTo(MaxTail)}
    \cup
    {Join(<<h, TOK_FREQ, TOK_MODE, TOK_DATE, TOK_TIME, TOK_SENT_CALL>> \o tail) :
        h \in HeadTokens \ {STR_QSO}, tail \in TokenSeqsUpTo(MaxTail)}
    \cup
    {Join(<<STR_QSO, f, m, TOK_DATE, TOK_TIME, sc>> \o tail) :
        f \in {TOK_FREQ, TOK_BAD_BAND}, m \in {TOK_MODE, TOK_BAD_MODE},
        sc \in {TOK_SENT_CALL, TOK_BAD_SENT}, tail \in ContactTails}

QsoInit ==
    /\ qso_line \in QsoLines
    /\ qso_out = NotCalled
    /\ ParseIdle
    /\ EnrichIdle
    /\ LogIdle
    /\ BuildIdle
    /\ ReadersIdle
    /\ StatsIdle
    /\ VariantIdle

ParseQsoLine ==
    /\ qso_out = NotCalled
    /\ qso_out' = parse_qso_line(qso_line)
    /\ UNCHANGED <<qso_line, parse_vars, enrich_vars, log_vars, build_vars,
                   reader_vars, stats_vars, variant_vars>>

QsoNext == ParseQsoLine

SpecQso == QsoInit /\ [][QsoNext]_vars

\* The tokens of the line handed to parse_qso_line
QsoTokens == split_whitespace(qso_line)

\* Token r is the first call-shaped token from index 6 on
IsReceivedCallIndex(r) ==
    /\ r \in 6..(Len(QsoTokens) - 1)
    /\ is_valid_callsign(At(QsoTokens, r))
    /\ \A j \in 6..(r - 1) : ~is_valid_callsign(At(QsoTokens, j))

\* C5: of an accepted line with tokens t, freq = t[1], mode = t[2],
\* date = t[3], time = t[4], sent_call = t[5]; the received callsign is the
\* first token from index 6 on that passes the callsign test, and the sent
\* exchange is the tokens between index 6 and it, joined with single spaces
\* (empty when it is token 6).
C5_TokenBoundary ==
    qso_out.kind = "Ok" =>
        \E r \in 6..(Len(QsoTokens) - 1) :
            /\ IsReceivedCallIndex(r)
            /\ qso_out.value.freq = At(QsoTokens, 1)
            /\ qso_out.value.mode = At(QsoTokens, 2)
            /\ Ok(qso_out.value.date) = ParseDate(At(QsoTokens, 3))
            /\ Ok(qso_out.value.time) = ParseTime(At(QsoTokens, 4))
            /\ qso_out.value.sent_call = At(QsoTokens, 5)
            /\ qso_out.value.rcvd_call = At(QsoTokens, r)
            /\ qso_out.value.sent_rst_exch = Join(Slice(QsoTokens, 6, r))

\* An accepted line with a sent exchange and with a second call-shaped token
\* after the one that was taken as the received callsign
C5_Witness ==
    /\ qso_out.kind = "Ok"
    /\ qso_out.value.sent_rst_exch # <<>>
    /\ \E r \in 7..(Len(QsoTokens) - 1) :
          /\ IsReceivedCallIndex(r)
          /\ \E j \in (r + 1)..(Len(QsoTokens) - 1) :
                is_valid_callsign(At(QsoTokens, j))

\* C6: of an accepted line whose received callsign is token r, when the last
\* token is "0" or "1" tx is that token and the received exchange is the
\* tokens after r without the last, joined with single spaces; otherwise tx
\* is absent and the received exchange is all tokens after r.
C6_TransmitterFlag ==
    qso_out.kind = "Ok" =>
        \E r \in 6..(Len(QsoTokens) - 1) :
            /\ IsReceivedCallIndex(r)
            /\ IF At(QsoTokens, Len(QsoTokens) - 1) \in {STR_0, STR_1}
               THEN /\ qso_out.value.tx = Some(At(QsoTokens, Len(QsoTokens) - 1))
                    /\ qso_out.value.rcvd_rst_exch
                           = Join(Slice(QsoTokens, r + 1, Len(QsoTokens) - 1))
               ELSE /\ qso_out.value.tx = None
                    /\ qso_out.value.rcvd_rst_exch
                           = Join(Slice(QsoTokens, r + 1, Len(QsoTokens)))

\* An accepted line that ends in the flag "1" after a received exchange
C6_Witness ==
    /\ qso_out.kind = "Ok"
    /\ qso_out.value.tx = Some(STR_1)
    /\ qso_out.value.rcvd_rst_exch # <<>>

\* The line has the ten tokens and the leading token parse_qso_line asks for
HasQsoShape == Len(QsoTokens) >= 10 /\ At(QsoTokens, 0) = STR_QSO

\* No token from index 6 on passes the callsign test
NoCallShapedToken ==
    \A i \in 6..(Len(QsoTokens) - 1) : ~is_valid_callsign(At(QsoTokens, i))

\* C11: the failures of contact-line parsing, in the order they are checked:
\* fewer than 10 tokens or a token 0 other than "QSO:" gives InvalidFormat; then
\* a bad date gives InvalidDate; then a bad time gives InvalidTime; then no
\* call-shaped token from index 6 on gives InvalidFormat; then a received
\* callsign that is the last token gives InvalidFormat; any other line is
\* accepted.  So a line with a bad date and a bad time reports InvalidDate.
C11_FailureOrder ==
    qso_out # NotCalled =>
        IF ~HasQsoShape
        THEN qso_out = Err(InvalidFormat("Invalid QSO line"))
        ELSE IF ParseDate(At(QsoTokens, 3)).kind = "Err"
        THEN qso_out = Err(InvalidDate(At(QsoTokens, 3)))
        ELSE IF ParseTime(At(QsoTokens, 4)).kind = "Err"
        THEN qso_out = Err(InvalidTime(At(QsoTokens, 4)))
        ELSE IF NoCallShapedToken
        THEN /\ qso_out.kind = "Err"
             /\ qso_out.error.error = "InvalidFormat"
        ELSE IF IsReceivedCallIndex(Len(QsoTokens) - 1)
        THEN /\ qso_out.kind = "Err"
             /\ qso_out.error.error = "InvalidFormat"
        ELSE qso_out.kind = "Ok"

\* A well-shaped line with a bad date and a bad time reported InvalidDate
C11_Witness ==
    /\ HasQsoShape
    /\ ParseDate(At(QsoTokens, 3)).kind = "Err"
    /\ ParseTime(At(QsoTokens, 4)).kind = "Err"
    /\ qso_out = Err(InvalidDate(TOK_BAD_DATE))

\* The scan for the received callsign is reached and finds nothing
ScanFindsNoCallsign ==
    /\ qso_out # NotCalled
    /\ HasQsoShape
    /\ ParseDate(At(QsoTokens, 3)).kind = "Ok"
    /\ ParseTime(At(QsoTokens, 4)).kind = "Ok"
    /\ NoCallShapedToken

\* C12 as stated: when the callsign test finds no received callsign, the
\* error reported is InvalidCallsign.
C12_InvalidCallsignSurfaced ==
    ScanFindsNoCallsign =>
        qso_out.kind = "Err" /\ qso_out.error.error = "InvalidCallsign"

\* C12 amended: contact-line parsing never reports InvalidCallsign; when the
\* callsign test finds no received callsign the error is
\* InvalidFormat("No valid received callsign found").
C12_NoCallsignIsInvalidFormat ==
    /\ qso_out.kind = "Err" => qso_out.error.error # "InvalidCallsign"
    /\ ScanFindsNoCallsign =>
          qso_out = Err(InvalidFormat("No valid received callsign found"))

\* A line of ten tokens, good date and time, with no call-shaped token after
\* the sent callsign, was rejected
C12_Witness ==
    /\ ScanFindsNoCallsign
    /\ qso_out.kind = "Err"

\* A printable ASCII character: 0x20 to 0x7E
IsPrintableAscii(b) ==
    IsAsciiByte(b) /\ b \notin ControlBytes /\ b \notin {"\t", "\n", "\r"}

\* The plausible-callsign test as the spec words it
PlausibleCallsign(token) ==
    /\ \A i \in 1..Len(token) : IsPrintableAscii(token[i])
    /\ \E i \in 1..Len(token) : token[i] \in Digits
    /\ \E i \in 1..Len(token) : token[i] \in Letters
    /\ CharCount(token) > 2

\* C22: a token passes the callsign test exactly when it consists only of
\* printable ASCII characters, has an ASCII digit and an ASCII letter and is
\* longer than 2 characters; the forward scan of parse_qso_line uses that
\* test, so the received callsign of a parsed contact passes it.
C22_PlausibleCallsignTest ==
    qso_out # NotCalled =>
        /\ \A k \in DOMAIN QsoTokens :
              is_valid_callsign(QsoTokens[k]) <=> PlausibleCallsign(QsoTokens[k])
        /\ qso_out.kind = "Ok" => PlausibleCallsign(qso_out.value.rcvd_call)

-----------------------------------------------------------------------------
(* SpecLog: a CabrilloLog value, built by its owner through the public     *)
(* fields, on which validate() and to_string() are called in any order     *)

MaxQsos == 2
MaxCalls == 2

QSO_GOOD ==
    [freq |-> <<"4", "0">>, mode |-> <<"C", "W">>,
     date |-> [year |-> 2023, month |-> 10, day |-> 1],
     time |-> [hour |-> 12, minute |-> 0],
     sent_call |-> <<"N", "1", "M">>, sent_rst_exch |-> <<"5", "9">>,
     rcvd_call |-> <<"W", "1", "A">>,
     rcvd_rst_exch |-> <<"5", "9", "9", " ", "0", "0", "1">>,
     tx |-> None]

\* A frequency in place of a band, a sent callsign wider than its column, no
\* sent exchange, a received exchange wider than its column, a flag
QSO_WIDE ==
    [QSO_GOOD EXCEPT !.freq = <<"7", ".", "5">>, !.mode = <<"P", "H">>,
                     !.sent_call = <<"V", "E", "3", "/", "N", "1", "M", "M", "/", "Q", "R", "P", "/", "P">>,
                     !.sent_rst_exch = <<>>,
                     !.rcvd_rst_exch = <<"5", "9", "9", " ", "0", "0", "1", " ", "X">>,
                     !.tx = Some(STR_1)]

\* A sent exchange of four tokens and a received callsign, both wider than
\* their columns, and a received exchange wider than its column with no flag
\* after it
QSO_WIDE_MID ==
    [QSO_GOOD EXCEPT !.sent_rst_exch = <<"1", "2", "1", "1", " ", "B", " ", "7", "4", " ", "S", "C", "V">>,
                     !.rcvd_call = <<"V", "E", "3", "/", "W", "1", "A", "/", "Q", "R", "P", "/", "M", "M">>,
                     !.rcvd_rst_exch = <<"5", "9", "9", " ", "0", "0", "1", " ", "X">>]

QSO_LIGHT == [QSO_GOOD EXCEPT !.freq = <<"L", "I", "G", "H", "T">>, !.tx = Some(STR_0)]
QSO_INF == [QSO_GOOD EXCEPT !.freq = <<"+", "i", "n", "F">>]

\* No sent callsign, and a band that is neither listed nor a number
QSO_BAD_SENT == [QSO_GOOD EXCEPT !.sent_call = <<>>, !.freq = <<"4", "O", "M">>]

\* A received callsign with a two-byte character, and a mode in lower case
QSO_BAD_RCVD ==
    [QSO_GOOD EXCEPT !.rcvd_call = <<"W", "1", "C3", "A9">>, !.mode = <<"c", "w">>]

QSO_BAD_BAND == [QSO_GOOD EXCEPT !.freq = <<"1", "e">>, !.tx = Some(<<"2">>)]
QSO_BAD_MODE == [QSO_GOOD EXCEPT !.mode = <<"c", "w">>, !.tx = Some(<<"2">>)]
QSO_BAD_TX == [QSO_GOOD EXCEPT !.tx = Some(<<"2">>)]

QsoPool ==
    {QSO_GOOD, QSO_WIDE, QSO_WIDE_MID, QSO_LIGHT, QSO_INF, QSO_BAD_SENT, QSO_BAD_RCVD,
     QSO_BAD_BAND, QSO_BAD_MODE, QSO_BAD_TX}

RECURSIVE QsoSeqsUpTo(_)
QsoSeqsUpTo(n) ==
    IF n = 0 THEN {<<>>}
    ELSE With(QsoSeqsUpTo(n - 1), LAMBDA shorter :
            shorter \cup {Append(list, q) : list \in shorter, q \in QsoPool})

HeaderMaps ==
    {<<>>,
     (<<"a">> :> <<"y">>) @@ (<<"B">> :> <<"x">>) @@ (<<"A">> :> <<>>)}

Logs == {[headers |-> h, qsos |-> list] : h \in HeaderMaps, list \in QsoSeqsUpTo(MaxQsos)}

LogInit ==
    /\ log \in Logs
    /\ verdicts = <<>>
    /\ texts = <<>>
    /\ ParseIdle
    /\ QsoIdle
    /\ EnrichIdle
    /\ BuildIdle
    /\ ReadersIdle
    /\ StatsIdle
    /\ VariantIdle

\* Mutant of Validate: the contacts that fail are dropped from the log
ValidateRepairing ==
    /\ Len(verdicts) < MaxCalls
    /\ verdicts' = Append(verdicts, validate(log))
    /\ log' = [log EXCEPT !.qsos =
                  SelectSeq(@, LAMBDA q : validate_qso(q).kind = "Ok")]
    /\ UNCHANGED <<texts, parse_vars, qso_vars, enrich_vars, build_vars,
                   reader_vars, stats_vars, variant_vars>>

\* log.validate(): validate takes &self, the log is only read
Validate ==
    /\ Len(verdicts) < MaxCalls
    /\ verdicts' = Append(verdicts, validate(log))
    /\ UNCHANGED <<log, texts, parse_vars, qso_vars, enrich_vars, build_vars,
                   reader_vars, stats_vars, variant_vars>>

\* log.to_string(): fmt takes &self, the log is only read
Serialize ==
    /\ Len(texts) < MaxCalls
    /\ \E keys \in KeyOrders(log.headers) :
          texts' = Append(texts, Display(log, keys))
    /\ UNCHANGED <<log, verdicts, parse_vars, qso_vars, enrich_vars, build_vars,
                   reader_vars, stats_vars, variant_vars>>

LogNext == Validate \/ Serialize

SpecLog == LogInit /\ [][LogNext]_vars

\* What the spec asks of one contact
CallsignAccepted(call) == call # <<>> /\ is_valid_callsign(call)
BandAccepted(freq) == freq \in valid_bands \/ ParsesAsF64(freq)
ModeAccepted(mode) ==
    mode \in {<<"C", "W">>, <<"P", "H">>, <<"F", "M">>, <<"R", "Y">>, <<"D", "G">>}
TxAccepted(tx) == tx = None \/ tx = Some(STR_0) \/ tx = Some(STR_1)

ContactAccepted(q) ==
    /\ CallsignAccepted(q.sent_call)
    /\ CallsignAccepted(q.rcvd_call)
    /\ BandAccepted(q.freq)
    /\ ModeAccepted(q.mode)
    /\ TxAccepted(q.tx)

\* C13: validate returns Ok exactly when every contact has non-empty,
\* call-shaped sent and received callsigns, a freq that is a listed band or
\* parses as a floating-point number, a mode among CW, PH, FM, RY, DG, and a
\* tx that is absent, "0" or "1".  A log without contacts validates, and the
\* headers do not affect the result.
C13_ValidateAccepts ==
    \A i \in DOMAIN verdicts :
        /\ verdicts[i] = Ok(<<>>) <=>
              \A k \in DOMAIN log.qsos : ContactAccepted(log.qsos[k])
        /\ log.qsos = <<>> => verdicts[i] = Ok(<<>>)
        /\ \A h \in HeaderMaps : verdicts[i] = validate([log EXCEPT !.headers = h])

\* A log with headers and two contacts, one with a frequency that is no listed
\* band, was accepted
C13_Witness ==
    /\ verdicts # <<>>
    /\ verdicts[1] = Ok(<<>>)
    /\ log.headers # <<>>
    /\ Len(log.qsos) = 2
    /\ \E k \in DOMAIN log.qsos : log.qsos[k].freq \notin valid_bands

\* The error the spec names for the first check a contact fails
FirstViolation(q) ==
    IF ~CallsignAccepted(q.sent_call) THEN InvalidCallsign(q.sent_call)
    ELSE IF ~CallsignAccepted(q.rcvd_call) THEN InvalidCallsign(q.rcvd_call)
    ELSE IF ~BandAccepted(q.freq)
    THEN InvalidFormat(<<"Invalid band/freq: ", q.freq>>)
    ELSE IF ~ModeAccepted(q.mode)
    THEN InvalidFormat(<<"Invalid mode: ", q.mode>>)
    ELSE InvalidFormat(<<"Invalid transmitter: ", q.tx.value>>)

\* C14: validate returns the error of the first contact, in stored order,
\* that fails a check; for that contact the checks run in the order sent
\* callsign, received callsign, band, mode, transmitter flag and the first one
\* that fails gives the error: InvalidCallsign with the callsign for the first
\* two, InvalidFormat for the others.
C14_FirstError ==
    \A i \in DOMAIN verdicts :
        verdicts[i].kind = "Err" =>
            \E k \in DOMAIN log.qsos :
                /\ ~ContactAccepted(log.qsos[k])
                /\ \A j \in 1..(k - 1) : ContactAccepted(log.qsos[j])
                /\ verdicts[i].error = FirstViolation(log.qsos[k])

\* Two contacts that fail with different errors, the first failing two checks:
\* the error is that of the first check of the first contact
C14_Witness ==
    /\ verdicts # <<>>
    /\ Len(log.qsos) = 2
    /\ ~CallsignAccepted(log.qsos[1].sent_call)
    /\ ~BandAccepted(log.qsos[1].freq)
    /\ ~ContactAccepted(log.qsos[2])
    /\ FirstViolation(log.qsos[2]) # FirstViolation(log.qsos[1])
    /\ verdicts[1] = Err(InvalidCallsign(log.qsos[1].sent_call))

Column(s, width) ==
    s \o [k \in 1..(IF CharCount(s) < width THEN width - CharCount(s) ELSE 0) |-> " "]

\* The QSO line of the k-th contact among the lines to_string wrote for the log
ContactLine(lines_of_text, k) ==
    lines_of_text[1 + Cardinality(DOMAIN log.headers) + k]

\* C17: in each QSO line the sent and received callsigns are left-justified
\* and padded with spaces to 13 columns, the two exchanges to 8 columns, the
\* fields one space apart; a present tx follows after one space, an absent
\* one leaves nothing after the padded received exchange, so that a received
\* exchange of 7 characters is followed by exactly one space.
C17_ColumnLayout ==
    \A i \in DOMAIN texts : \E written \in {Lines(texts[i])} :
      \A k \in DOMAIN log.qsos :
        \E q \in {log.qsos[k]} : \E line \in {ContactLine(written, k)} :
            /\ line = STR_QSO \o <<" ">> \o q.freq \o <<" ">> \o q.mode
                        \o <<" ">> \o FormatDate(q.date)
                        \o <<" ">> \o FormatTime(q.time)
                        \o <<" ">> \o Column(q.sent_call, 13)
                        \o <<" ">> \o Column(q.sent_rst_exch, 8)
                        \o <<" ">> \o Column(q.rcvd_call, 13)
                        \o <<" ">> \o Column(q.rcvd_rst_exch, 8)
                        \o (IF q.tx = None THEN <<>> ELSE <<" ">> \o q.tx.value)
            /\ (q.tx = None /\ CharCount(q.rcvd_rst_exch) = 7) =>
                  /\ line[Len(line)] = " "
                  /\ line[Len(line) - 1] # " "

\* A text was written for a contact without tx and a received exchange of 7
\* characters, and a contact with tx and fields wider than their columns
C17_Witness ==
    /\ texts # <<>>
    /\ log.qsos = <<QSO_GOOD, QSO_WIDE>>
    /\ QSO_GOOD.tx = None
    /\ CharCount(QSO_GOOD.rcvd_rst_exch) = 7
    /\ CharCount(QSO_WIDE.sent_call) > 13

\* Whether x occurs in s as a run of consecutive bytes, and whether s ends
\* with x
Occurs(x, s) ==
    \E i \in 1..(Len(s) - Len(x) + 1) : SubSeq(s, i, i + Len(x) - 1) = x

EndsWith(s, x) ==
    Len(x) <= Len(s) /\ SubSeq(s, Len(s) - Len(x) + 1, Len(s)) = x

\* C29: the tokens of the QSO line of a contact are "QSO:", those of freq, of
\* mode, the date, the time, those of the sent callsign, of the sent
\* exchange, of the received callsign, of the received exchange, and tx when
\* present; a callsign of more than 13 characters and an exchange of more
\* than 8 are written in full and unpadded, one space before the column that
\* follows, the received exchange being followed by tx after one space or by
\* the end of the line.
C29_NeverTruncates ==
    \A i \in DOMAIN texts : \E written \in {Lines(texts[i])} :
      \A k \in DOMAIN log.qsos :
        \E q \in {log.qsos[k]} : \E line \in {ContactLine(written, k)} :
            /\ split_whitespace(line) =
                  <<STR_QSO>> \o split_whitespace(q.freq) \o split_whitespace(q.mode)
                      \o <<FormatDate(q.date), FormatTime(q.time)>>
                      \o split_whitespace(q.sent_call)
                      \o split_whitespace(q.sent_rst_exch)
                      \o split_whitespace(q.rcvd_call)
                      \o split_whitespace(q.rcvd_rst_exch)
                      \o (IF q.tx = None THEN <<>> ELSE split_whitespace(q.tx.value))
            /\ CharCount(q.sent_call) > 13 =>
                  Occurs(<<" ">> \o q.sent_call \o <<" ">>
                             \o Column(q.sent_rst_exch, 8) \o <<" ">>, line)
            /\ CharCount(q.sent_rst_exch) > 8 =>
                  Occurs(<<" ">> \o q.sent_rst_exch \o <<" ">>
                             \o Column(q.rcvd_call, 13) \o <<" ">>, line)
            /\ CharCount(q.rcvd_call) > 13 =>
                  Occurs(<<" ">> \o q.rcvd_call \o <<" ">>
                             \o Column(q.rcvd_rst_exch, 8), line)
            /\ CharCount(q.rcvd_rst_exch) > 8 =>
                  EndsWith(line, <<" ">> \o q.rcvd_rst_exch
                                     \o (IF q.tx = None THEN <<>> ELSE <<" ">> \o q.tx.value))

\* A text was written for a contact with a sent callsign of 14 characters and
\* a received exchange of 9 before its flag, and a contact with a sent
\* exchange of 13 characters, a received callsign of 14 and a received
\* exchange of 9 at the end of its line
C29_Witness ==
    /\ texts # <<>>
    /\ log.qsos = <<QSO_WIDE, QSO_WIDE_MID>>
    /\ CharCount(QSO_WIDE.sent_call) = 14
    /\ CharCount(QSO_WIDE.rcvd_rst_exch) = 9 /\ QSO_WIDE.tx # None
    /\ CharCount(QSO_WIDE_MID.sent_rst_exch) = 13
    /\ CharCount(QSO_WIDE_MID.rcvd_call) = 14
    /\ CharCount(QSO_WIDE_MID.rcvd_rst_exch) = 9 /\ QSO_WIDE_MID.tx = None

-----------------------------------------------------------------------------
(* SpecEnrich: lookups in a prefix map as build.rs can generate it *)

MaxCallLen == 3

EntitySP == [main_prefix |-> "SP", country |-> "Poland"]
EntityK == [main_prefix |-> "K", country |-> "United States"]
EntityPool == {EntitySP, EntityK}

\* Keys of the generated map: alias prefixes of the master data
KeyPool == {<<"S">>, <<"S", "N">>, <<"S", "N", "0">>, <<"N">>}

IndexSet == UNION {[K -> EntityPool] : K \in SUBSET KeyPool}

\* The characters callsigns are drawn from; the last one is U+00E9, two bytes
CallChars == {<<"S">>, <<"N">>, <<"0">>, <<"C3", "A9">>}

RECURSIVE StringsUpTo(_)
StringsUpTo(n) ==
    IF n = 0 THEN {<<>>}
    ELSE With(StringsUpTo(n - 1), LAMBDA shorter :
            shorter \cup {s \o c : s \in shorter, c \in CallChars})

Callsigns == StringsUpTo(MaxCallLen)

EnrichInit ==
    /\ ENTITIES \in IndexSet
    /\ callsign = <<>>
    /\ found = NotCalled
    /\ found2 = NotCalled
    /\ ParseIdle
    /\ QsoIdle
    /\ LogIdle
    /\ BuildIdle
    /\ ReadersIdle
    /\ StatsIdle
    /\ VariantIdle

\* A caller runs enrich_callsign(c)
Enrich ==
    /\ \E c \in Callsigns :
          /\ callsign' = c
          /\ found' = enrich_callsign(ENTITIES, c)
    /\ UNCHANGED <<ENTITIES, found2, parse_vars, qso_vars, log_vars, build_vars,
                   reader_vars, stats_vars, variant_vars>>

EnrichNext == Enrich

SpecEnrich == EnrichInit /\ [][EnrichNext]_vars

\* The index keys that are leading substrings of the callsign looked up
MatchingKeys == {k \in DOMAIN ENTITIES : StartsWith(callsign, k)}

LongestMatchingKey == CHOOSE k \in MatchingKeys : \A j \in MatchingKeys : Len(j) <= Len(k)

\* C2: for every index and every callsign c, enrich_callsign(c) returns the
\* entity stored under the longest index key that is a leading substring of c
\* (so never the entity of a shorter matching key).
C2_LongestPrefixReturned ==
    (found # NotCalled /\ MatchingKeys # {})
        => found = Some(ENTITIES[LongestMatchingKey])

\* C3: for every callsign whatsoever, non-ASCII ones included, enrich_callsign
\* ends with an entity or with no entity, never with a failure or a panic, and
\* with no entity when no leading substring of the callsign is an index key.
C3_ResolutionNeverFails ==
    found # NotCalled
        => /\ found.kind \in {"Some", "None"}
           /\ (MatchingKeys = {} => found = None)

-----------------------------------------------------------------------------
(* SpecResolvers: enrich_callsign and enrich_callsign2 called with the same *)
(* callsign on the same index.  The index may hold the empty key, which     *)
(* build.rs writes for an alias without a letter or a digit.                *)

\* The loop of enrich_callsign2 over the entries from the i-th on of one
\* iteration order, best being best_match and best_len so far
RECURSIVE BestMatch(_, _, _, _, _)
BestMatch(map, order, c, i, best) ==
    IF i > Len(order) THEN best.best_match
    ELSE BestMatch(map, order, c, i + 1,
                   IF StartsWith(c, order[i]) /\ Len(order[i]) > best.best_len
                   THEN [best_match |-> Some(map[order[i]]), best_len |-> Len(order[i])]
                   ELSE best)

\* Mutant of enrich_callsign2: the shortest matching key that is not empty
\* wins
enrich_callsign2_shortest(map, c) ==
    With({k \in DOMAIN map : StartsWith(c, k) /\ k # <<>>}, LAMBDA matching :
        IF matching = {} THEN {None}
        ELSE {Some(map[CHOOSE k \in matching : \A j \in matching : Len(k) <= Len(j)])})

\* enrich_callsign2: what it can return, the order in which a phf::Map is
\* iterated being any order of its entries
enrich_callsign2(map, c) ==
    {BestMatch(map, order, c, 1, [best_match |-> None, best_len |-> 0]) :
        order \in KeyOrders(map)}

ResolverIndexes ==
    {<<>>,
     (<<>> :> EntityK),
     (<<"S">> :> EntitySP) @@ (<<"S", "N">> :> EntityK),
     (<<>> :> EntitySP) @@ (<<"S">> :> EntityK) @@ (<<"S", "N", "0">> :> EntitySP),
     (<<"N">> :> EntityK) @@ (<<"S">> :> EntitySP) @@ (<<"S", "N">> :> EntityK)
         @@ (<<"N", "S">> :> EntitySP),
     (<<"0">> :> EntityK) @@ (<<"S", "0">> :> EntitySP) @@ (<<"S", "C3", "A9">> :> EntityK)}

ResolversInit ==
    /\ ENTITIES \in ResolverIndexes
    /\ callsign = <<>>
    /\ found = NotCalled
    /\ found2 = NotCalled
    /\ ParseIdle
    /\ QsoIdle
    /\ LogIdle
    /\ BuildIdle
    /\ ReadersIdle
    /\ StatsIdle
    /\ VariantIdle

\* A caller runs enrich_callsign(c) and enrich_callsign2(c); the calls leave
\* the index as it is, so one pair of calls per index is looked at
Resolve ==
    /\ found = NotCalled
    /\ \E c \in Callsigns :
          /\ callsign' = c
          /\ found' = enrich_callsign(ENTITIES, c)
          /\ found2' \in enrich_callsign2(ENTITIES, c)
    /\ UNCHANGED <<ENTITIES, parse_vars, qso_vars, log_vars, build_vars,
                   reader_vars, stats_vars, variant_vars>>

ResolversNext == Resolve

SpecResolvers == ResolversInit /\ [][ResolversNext]_vars

\* C26: on every index, for every callsign of ASCII characters only,
\* enrich_callsign and enrich_callsign2 return the same entity, or both return
\* none.
C26_ResolversAgree ==
    (found # NotCalled /\ \A i \in DOMAIN callsign : IsAsciiByte(callsign[i])) =>
        /\ found.kind \in {"Some", "None"}
        /\ found2 = found

\* SN0 looked up in an index that has the keys S and SN with different
\* entities, and N: both resolvers return the entity of SN
C26_Witness ==
    /\ callsign = <<"S", "N", "0">>
    /\ {<<"S">>, <<"S", "N">>, <<"N">>} \subseteq DOMAIN ENTITIES
    /\ ENTITIES[<<"S">>] # ENTITIES[<<"S", "N">>]
    /\ found = Some(ENTITIES[<<"S", "N">>])
    /\ found2 = found

-----------------------------------------------------------------------------
(* SpecReaders: threads that call enrich_callsign at the same time on the   *)
(* one static ENTITIES, as the request handlers of web_map do.  A call is    *)
(* the collect() of get_all_prefixes_descending, then one ENTITIES.get per  *)
(* prefix until the first hit; the steps of different threads interleave.   *)

NumReaders == 2

Readers == 1..NumReaders

ReaderIndexes ==
    {<<>>,
     (<<"S">> :> EntitySP) @@ (<<"S", "N", "0">> :> EntityK),
     (<<"S">> :> EntityK) @@ (<<"S", "N">> :> EntitySP) @@ (<<"N">> :> EntityK)}

\* The last callsign has U+00E9 in it: the call panics in its thread
ReaderCallsigns ==
    {<<>>, <<"S">>, <<"S", "N", "0">>, <<"N", "S">>, <<"S", "C3", "A9">>}

Idle == [pc |-> "idle"]

ReadersInit ==
    /\ ENTITIES \in ReaderIndexes
    /\ callsign = <<>>
    /\ found = NotCalled
    /\ found2 = NotCalled
    /\ readers = [r \in Readers |-> Idle]
    /\ ParseIdle
    /\ QsoIdle
    /\ LogIdle
    /\ BuildIdle
    /\ StatsIdle
    /\ VariantIdle

\* let prefixes = get_all_prefixes_descending(callsign)
Call(r) ==
    /\ readers[r].pc = "idle"
    /\ \E c \in ReaderCallsigns : \E prefixes \in {get_all_prefixes_descending(c)} :
          readers' = [readers EXCEPT ![r] =
              IF prefixes.kind = "Panic"
              THEN [pc |-> "done", callsign |-> c, out |-> Panic]
              ELSE [pc |-> "scan", callsign |-> c, prefixes |-> prefixes.value,
                    k |-> 1]]
    /\ UNCHANGED <<enrich_vars, parse_vars, qso_vars, log_vars, build_vars,
                   stats_vars, variant_vars>>

\* Mutant of Probe: the position in the prefix list is one static cursor, so
\* a miss of one thread moves every thread that is scanning
ProbeSharedCursor(r) ==
    /\ readers[r].pc = "scan"
    /\ \E me \in {readers[r]} :
          readers' =
              IF me.k > Len(me.prefixes)
              THEN [readers EXCEPT ![r] =
                       [pc |-> "done", callsign |-> me.callsign, out |-> None]]
              ELSE IF me.prefixes[me.k] \in DOMAIN ENTITIES
              THEN [readers EXCEPT ![r] =
                       [pc |-> "done", callsign |-> me.callsign,
                        out |-> Some(ENTITIES[me.prefixes[me.k]])]]
              ELSE [q \in Readers |->
                       IF readers[q].pc = "scan"
                       THEN [readers[q] EXCEPT !.k = @ + 1]
                       ELSE readers[q]]
    /\ UNCHANGED <<enrich_vars, parse_vars, qso_vars, log_vars, build_vars,
                   stats_vars, variant_vars>>

\* One step of prefixes.into_iter().filter_map(|p| ENTITIES.get(&p)).next():
\* the iterator is exhausted, or the next prefix is looked up and is a hit or
\* a miss
Probe(r) ==
    /\ readers[r].pc = "scan"
    /\ \E me \in {readers[r]} :
          readers' = [readers EXCEPT ![r] =
              IF me.k > Len(me.prefixes)
              THEN [pc |-> "done", callsign |-> me.callsign, out |-> None]
              ELSE IF me.prefixes[me.k] \in DOMAIN ENTITIES
              THEN [pc |-> "done", callsign |-> me.callsign,
                    out |-> Some(ENTITIES[me.prefixes[me.k]])]
              ELSE [me EXCEPT !.k = @ + 1]]
    /\ UNCHANGED <<enrich_vars, parse_vars, qso_vars, log_vars, build_vars,
                   stats_vars, variant_vars>>

ReadersNext == \E r \in Readers : Call(r) \/ Probe(r)

SpecReaders == ReadersInit /\ [][ReadersNext]_vars

\* C23: no step of a resolve call changes the prefix index, and every call,
\* however its steps interleave with those of the other readers, ends with
\* what enrich_callsign gives for its callsign on the index as built.
C23_ReadersDoNotInterfere ==
    /\ [](\A r \in Readers :
            readers[r].pc = "done" =>
                readers[r].out = enrich_callsign(ENTITIES, readers[r].callsign))
    /\ [][ENTITIES' = ENTITIES]_vars

\* A reader is in the middle of its scan, after a miss, and another one has
\* ended with the entity of a key that is not the first prefix it looked up
C23_Witness ==
    \E r, q \in Readers :
        /\ readers[r].pc = "scan"
        /\ readers[r].k > 1
        /\ readers[q].pc = "done"
        /\ readers[q].callsign = <<"S", "N", "0">>
        /\ <<"S", "N">> \in DOMAIN ENTITIES
        /\ readers[q].out = Some(ENTITIES[<<"S", "N">>])

-----------------------------------------------------------------------------
(* SpecStats: QsoStats::new on a list of contacts, then one query on the      *)
(* table with or without a filter *)

MaxStatQsos == 3

\* The contacts of create_test_qsos with shorter callsigns, one of the evening
\* before, and one of the year 999 with a band that is no number and a callsign
\* of no entity
STAT_A == [QSO_GOOD EXCEPT !.freq = <<"1", "4", "0", "0", "0">>]

STAT_B ==
    [QSO_GOOD EXCEPT !.freq = <<"7", "0", "0", "0">>, !.mode = <<"P", "H">>,
                     !.time = [hour |-> 12, minute |-> 30],
                     !.rcvd_call = <<"S", "P", "5", "T">>]

STAT_C ==
    [QSO_GOOD EXCEPT !.freq = <<"1", "4", "0", "0", "0">>,
                     !.date = [year |-> 2023, month |-> 9, day |-> 30],
                     !.time = [hour |-> 23, minute |-> 59],
                     !.rcvd_call = <<"S", "P", "5", "T">>]

STAT_D ==
    [QSO_GOOD EXCEPT !.freq = <<"L", "I", "G", "H", "T">>,
                     !.date = [year |-> 999, month |-> 12, day |-> 31],
                     !.rcvd_call = <<"X", "1">>]

StatQsoPool == {STAT_A, STAT_B, STAT_C, STAT_D}

RECURSIVE StatQsoSeqsUpTo(_)
StatQsoSeqsUpTo(n) ==
    IF n = 0 THEN {<<>>}
    ELSE With(StatQsoSeqsUpTo(n - 1), LAMBDA shorter :
            shorter \cup {Append(list, q) : list \in shorter, q \in StatQsoPool})

\* The entities of the two countries of create_test_qsos
StatEntities ==
    (<<"W">> :> [country |-> <<"U", "n", "i", "t", "e", "d", " ", "S", "t", "a", "t", "e", "s">>,
                 cq_zone |-> 5, itu_zone |-> 8, continent |-> <<"N", "A">>, dxcc |-> 291])
    @@ (<<"S", "P">> :> [country |-> <<"P", "o", "l", "a", "n", "d">>,
                         cq_zone |-> 15, itu_zone |-> 28, continent |-> <<"E", "U">>,
                         dxcc |-> 269])

\* QsoFilter::default()
DefaultFilter ==
    [band |-> None, country |-> None, cq_zone |-> None, itu_zone |-> None,
     mode |-> None, start_date |-> None, end_date |-> None]

FilterPool ==
    {None,
     Some(DefaultFilter),
     Some([DefaultFilter EXCEPT !.mode = Some(<<"C", "W">>)]),
     Some([DefaultFilter EXCEPT !.band = Some(<<"1", "4", "0", "0", "0">>), !.cq_zone = Some(15)]),
     Some([DefaultFilter EXCEPT !.country = Some(<<"U", "n", "i", "t", "e", "d", " ", "S", "t", "a", "t", "e", "s">>),
                                !.itu_zone = Some(8)]),
     Some([DefaultFilter EXCEPT
              !.start_date = Some([date |-> [year |-> 2023, month |-> 1, day |-> 1],
                                   time |-> [hour |-> 0, minute |-> 0]]),
              !.end_date = Some([date |-> [year |-> 2023, month |-> 10, day |-> 1],
                                 time |-> [hour |-> 12, minute |-> 0]])])}

\* The columns qso_per_band, qso_per_country, qso_per_continent and
\* qso_per_mode group by
GroupColumns == {COL_BAND_NAME, COL_COUNTRY, COL_CONTINENT, COL_MODE}

StatsInit ==
    /\ \E list \in StatQsoSeqsUpTo(MaxStatQsos) : table = insert_qsos(list, StatEntities)
    /\ filter = None
    /\ sql = <<>>
    /\ answer = NotCalled
    /\ ParseIdle
    /\ QsoIdle
    /\ EnrichIdle
    /\ LogIdle
    /\ BuildIdle
    /\ ReadersIdle
    /\ VariantIdle

TimeIntervalStats ==
    /\ answer = NotCalled
    /\ \E f \in FilterPool : \E query \in {QueryTimestamps(f)} :
          /\ filter' = f
          /\ sql' = query
          /\ answer' = [op |-> "time_interval_stats",
                        value |-> time_interval_stats(query, table)]
    /\ UNCHANGED <<table, parse_vars, qso_vars, enrich_vars, log_vars, build_vars,
                   reader_vars, variant_vars>>

GroupByColumn ==
    /\ answer = NotCalled
    /\ \E f \in FilterPool, column \in GroupColumns :
          \E query \in {QueryGroupBy(column, f)} :
              /\ filter' = f
              /\ sql' = query
              /\ \E returned \in group_by_column(query, column, table) :
                    answer' = [op |-> "group_by_column", column |-> column,
                               value |-> returned]
    /\ UNCHANGED <<table, parse_vars, qso_vars, enrich_vars, log_vars, build_vars,
                   reader_vars, variant_vars>>

QsoPerCqZone ==
    /\ answer = NotCalled
    /\ \E f \in FilterPool : \E query \in {QueryCqZone(f)} :
          /\ filter' = f
          /\ sql' = query
          /\ answer' = [op |-> "qso_per_cq_zone", value |-> qso_per_cq_zone(query, table)]
    /\ UNCHANGED <<table, parse_vars, qso_vars, enrich_vars, log_vars, build_vars,
                   reader_vars, variant_vars>>

QsoPerCountryBand ==
    /\ answer = NotCalled
    /\ \E f \in FilterPool : \E query \in {QueryCountryBand(f)} :
          /\ filter' = f
          /\ sql' = query
          /\ \E returned \in qso_per_country_band(query, table) :
                answer' = [op |-> "qso_per_country_band", value |-> returned]
    /\ UNCHANGED <<table, parse_vars, qso_vars, enrich_vars, log_vars, build_vars,
                   reader_vars, variant_vars>>

StatsNext == TimeIntervalStats \/ GroupByColumn \/ QsoPerCqZone \/ QsoPerCountryBand

SpecStats == StatsInit /\ [][StatsNext]_vars

\* The minute of a date and time, counted from 0000-01-01 00:00
MinuteNumber(ts) == DayNumber(ts.date) * 1440 + ts.time.hour * 60 + ts.time.minute

\* Whether a filter keeps the contact of a row of the table
MatchesFilter(r, f) ==
    f.kind = "Some" =>
        \E q \in {f.value} : \E at \in {MinuteNumber(parse_from_rfc3339(r[COL_TIMESTAMP]).value)} :
            /\ q.band.kind = "Some" => r[COL_BAND] = q.band.value
            /\ q.country.kind = "Some" => r[COL_COUNTRY] = q.country.value
            /\ q.cq_zone.kind = "Some" => r[COL_CQ_ZONE] = q.cq_zone.value
            /\ q.itu_zone.kind = "Some" => r[COL_ITU_ZONE] = q.itu_zone.value
            /\ q.mode.kind = "Some" => r[COL_MODE] = q.mode.value
            /\ q.start_date.kind = "Some" => at >= MinuteNumber(q.start_date.value)
            /\ q.end_date.kind = "Some" => at <= MinuteNumber(q.end_date.value)

\* The minutes of the contacts of the table that the filter keeps, in
\* ascending order
RECURSIVE Ascending(_)
Ascending(numbers) ==
    IF numbers = <<>> THEN <<>>
    ELSE With(CHOOSE i \in DOMAIN numbers : \A j \in DOMAIN numbers : numbers[i] <= numbers[j],
              LAMBDA least :
                 <<numbers[least]>>
                     \o Ascending([k \in 1..(Len(numbers) - 1) |->
                                      IF k < least THEN numbers[k] ELSE numbers[k + 1]]))

MatchingMinutes(tbl, f) ==
    With(SelectSeq(tbl, LAMBDA r : MatchesFilter(r, f)), LAMBDA kept :
        Ascending([i \in DOMAIN kept |->
                      MinuteNumber(parse_from_rfc3339(kept[i][COL_TIMESTAMP]).value)]))

-----------------------------------------------------------------------------
(* SpecBuild: build.rs reads the master data and writes the prefix index *)

MaxRows == 3

\* Two aliases, one with the override marker
ROW_SP ==
    <<"S", "P", ",", "P", "o", "l", "a", "n", "d", ",", "2", "6", "9",
      ",", "E", "U", ",", "1", "5", ",", "2", "8", ",", "5", "2", ".",
      "0", ",", "-", "2", "0", ".", "0", ",", "-", "1", ".", "0", ",",
      "S", " ", "=", "S", "N", ";">>

\* The same two keys as ROW_SP and a time offset written without decimals
ROW_K ==
    <<"K", ",", "U", "n", "i", "t", "e", "d", " ", "S", "t", "a", "t",
      "e", "s", ",", "2", "9", "1", ",", "N", "A", ",", "5", ",", "8",
      ",", "3", "7", ".", "5", ",", "9", "1", ".", "9", ",", "5", ",",
      "=", "S", " ", "N", ";">>

\* A country with a part, an alias with a zone override in parentheses and
\* an alias with two markers
ROW_FJ ==
    <<" ", "3", "D", "2", "/", "r", ",", "F", "i", "j", "i", "/", "R",
      "o", "t", "u", "m", "a", ",", "4", "6", "0", ",", "O", "C", ",",
      "3", "2", ",", "5", "6", ",", "-", "1", "2", ".", "5", ",", "-",
      "1", "7", "7", ".", "1", ",", "-", "1", "2", ".", "0", ",", "S",
      "(", "5", ")", " ", "=", "=", "N", ";">>

\* Nine fields: the time offset is missing
ROW_SHORT ==
    <<"K", ",", "U", "n", "i", "t", "e", "d", " ", "S", "t", "a", "t",
      "e", "s", ",", "2", "9", "1", ",", "N", "A", ",", "5", ",", "8",
      ",", "3", "7", ".", "5", ",", "9", "1", ".", "9", ",", "N", ";">>

\* A dxcc id that is no number
ROW_BAD_DXCC ==
    <<"K", ",", "U", "n", "i", "t", "e", "d", " ", "S", "t", "a", "t",
      "e", "s", ",", "x", ",", "N", "A", ",", "5", ",", "8", ",", "3",
      "7", ".", "5", ",", "9", "1", ".", "9", ",", "5", ".", "0", ",",
      "N", ";">>

\* A latitude that is no number
ROW_BAD_LAT ==
    <<"K", ",", "U", "n", "i", "t", "e", "d", " ", "S", "t", "a", "t",
      "e", "s", ",", "2", "9", "1", ",", "N", "A", ",", "5", ",", "8",
      ",", "n", "o", "r", "t", "h", ",", "9", "1", ".", "9", ",", "5",
      ".", "0", ",", "S", ";">>

\* A blank line
ROW_BLANK ==
    <<" ">>

RowPool ==
    {ROW_SP, ROW_K, ROW_FJ, ROW_SHORT, ROW_BAD_DXCC, ROW_BAD_LAT, ROW_BLANK}

RECURSIVE RowSeqsUpTo(_)
RowSeqsUpTo(n) ==
    IF n = 0 THEN {<<>>}
    ELSE With(RowSeqsUpTo(n - 1), LAMBDA shorter :
            shorter \cup {Append(list, r) : list \in shorter, r \in RowPool})

BuildInit ==
    /\ rows \in RowSeqsUpTo(MaxRows)
    /\ row = 0
    /\ entities_map = <<>>
    /\ build = Running
    /\ ParseIdle
    /\ QsoIdle
    /\ EnrichIdle
    /\ LogIdle
    /\ ReadersIdle
    /\ StatsIdle
    /\ VariantIdle

\* line.is_empty() or parts.len() < 10: continue
SkipRow ==
    /\ build = Running
    /\ row < Len(rows)
    /\ IsSkippedRow(rows[row + 1])
    /\ row' = row + 1
    /\ UNCHANGED <<rows, entities_map, build, parse_vars, qso_vars,
                   enrich_vars, log_vars,
                   reader_vars, stats_vars, variant_vars>>

\* One of the .parse().unwrap() calls panics: main ends without writing
PanicOnRow ==
    /\ build = Running
    /\ row < Len(rows)
    /\ IsPanickingRow(rows[row + 1])
    /\ row' = row + 1
    /\ build' = Panic
    /\ UNCHANGED <<rows, entities_map, parse_vars, qso_vars, enrich_vars,
                   log_vars,
                   reader_vars, stats_vars, variant_vars>>

\* The row is parsed and its entity inserted under each of its prefixes
InsertRow ==
    /\ build = Running
    /\ row < Len(rows)
    /\ ~IsSkippedRow(rows[row + 1])
    /\ ~IsPanickingRow(rows[row + 1])
    /\ row' = row + 1
    /\ entities_map' = row_step(entities_map, rows[row + 1])
    /\ UNCHANGED <<rows, build, parse_vars, qso_vars, enrich_vars, log_vars,
                   reader_vars, stats_vars, variant_vars>>

\* After the last row: the phf map is generated and written to entities.rs
WriteIndex ==
    /\ build = Running
    /\ row = Len(rows)
    /\ build' = Some(entities_map)
    /\ UNCHANGED <<rows, row, entities_map, parse_vars, qso_vars,
                   enrich_vars, log_vars,
                   reader_vars, stats_vars, variant_vars>>

BuildNext == SkipRow \/ PanicOnRow \/ InsertRow \/ WriteIndex

SpecBuild == BuildInit /\ [][BuildNext]_vars

\* The fields of the i-th line of the master data
RowParts(i) == split(Trim(rows[i]), ",")

\* The rows among the first n that the loop parsed and inserted
AcceptedRows(n) ==
    {i \in 1..n : ~IsSkippedRow(rows[i]) /\ ~IsPanickingRow(rows[i])}

\* The keys under which the build inserts the entity of row i: its alias
\* list as the build holds it in `prefixes`
KeysOfRow(i) ==
    {prefixes_of(RowParts(i))[k] : k \in DOMAIN prefixes_of(RowParts(i))}

\* C18: while the rows are processed in order and in the index written at the
\* end, every key maps to the entity of the last row processed so far whose
\* alias list has that key: a later row overwrites the entry of an earlier
\* one, never the other way round.
C18_LastWriteWins ==
    build.kind \in {"Running", "Some"} =>
        /\ DOMAIN entities_map = UNION {KeysOfRow(i) : i \in AcceptedRows(row)}
        /\ \A k \in DOMAIN entities_map :
              \E i \in AcceptedRows(row) :
                  /\ k \in KeysOfRow(i)
                  /\ \A j \in AcceptedRows(row) : j > i => k \notin KeysOfRow(j)
                  /\ entities_map[k] = EntityOf(RowParts(i))
        /\ build.kind = "Some" => build.value = entities_map

\* The index was written after two rows of different entities with a common
\* key, which maps to the entity of the later row
C18_Witness ==
    /\ build.kind = "Some"
    /\ \E i, j \in AcceptedRows(Len(rows)) : \E k \in KeysOfRow(i) \cap KeysOfRow(j) :
          /\ i < j
          /\ EntityOf(RowParts(i)) # EntityOf(RowParts(j))
          /\ build.value[k] = EntityOf(RowParts(j))

\* An alias with its leading override marker taken off, the rest as written
WithoutMarker(alias) == SubSeq(alias, FirstNotIn(alias, {"="}, 1), Len(alias))

\* C19: every alias of every accepted row is inserted under the alias with
\* its leading '=' stripped and the rest of the string kept as it is, and the
\* index has no other keys.
C19_KeyIsAliasWithoutMarker ==
    build.kind = "Some" =>
        DOMAIN build.value =
            UNION {{WithoutMarker(RowAliases(RowParts(i))[k]) :
                        k \in DOMAIN RowAliases(RowParts(i))} :
                   i \in AcceptedRows(Len(rows))}

\* A line that is no row of the master data: not blank, and with fewer than
\* 10 fields or with a numeric field that does not parse
IsMalformedRow(line) ==
    /\ Trim(line) # <<>>
    /\ \/ Len(split(Trim(line), ",")) < 10
       \/ ~NumericFieldsParse(split(Trim(line), ","))

\* C20: a malformed row or a numeric field that does not parse makes the
\* build fail: no index is written from master data that has such a row.
C20_MalformedRowIsFatal ==
    build.kind = "Some" => \A i \in 1..Len(rows) : ~IsMalformedRow(rows[i])

\* The number of '/' in a field
SlashCount(field) == Cardinality({i \in 1..Len(field) : field[i] = "/"})

\* C21: the entity inserted for a row whose country field has exactly one '/'
\* has the text before the slash as country and the text after it as part;
\* for a country field without '/' it has the whole field as country and no
\* part.
C21_CountryPartSplit ==
    (build.kind # "Panic" /\ row \in AcceptedRows(row)) =>
        \E field \in {At(RowParts(row), 1)} : \E slash \in {FirstIn(field, {"/"}, 1)} :
            \A k \in KeysOfRow(row) :
                /\ SlashCount(field) = 1 =>
                      /\ entities_map[k].country = SubSeq(field, 1, slash - 1)
                      /\ entities_map[k].part =
                            Some(SubSeq(field, slash + 1, Len(field)))
                /\ SlashCount(field) = 0 =>
                      /\ entities_map[k].country = field
                      /\ entities_map[k].part = None

\* The index was written from the Fiji/Rotuma row and a row without a part
C21_Witness ==
    /\ build.kind = "Some"
    /\ \E k \in DOMAIN build.value :
          /\ build.value[k].country = <<"F", "i", "j", "i">>
          /\ build.value[k].part = Some(<<"R", "o", "t", "u", "m", "a">>)
    /\ \E k \in DOMAIN build.value :
          /\ build.value[k].country = <<"P", "o", "l", "a", "n", "d">>
          /\ build.value[k].part = None

=============================================================================
